---------------------------- MODULE Spec2Model ----------------------------
(* Verification model of the probabilistic signal and bankroll-risk engine   *)
(* of baccarat_bot: core/risk_management.py (KellyCriterion,                 *)
(* VolatilityAnalyzer, RiskManager), core/kelly_bankroll_manager.py          *)
(* (KellyBankrollManager), core/signal_generator.py (SignalGenerator,        *)
(* SignalManager), core/neural_networks.py (EnsemblePredictor,               *)
(* PatternAnalyzer), core/monte_carlo.py (MonteCarloEngine,                  *)
(* BayesianUpdater), core/prediction_engine.py (MLRandomForestEngine),       *)
(* core/decision_engine.py (DecisionEngine), core/data_acquisition.py        *)
(* (DataAggregator) and bot_avanzado_completo.py (AdvancedBaccaratBot).      *)
(*                                                                           *)
(* Number conventions.  Python floats holding money are integers of cents;   *)
(* a probability is an integer of thousandths (PScale), decimal odds are     *)
(* hundredths (OScale), a Kelly fraction is in 1/FScale.  A float product is *)
(* rounded down to that grid.  A drawdown ratio is kept as the exact pair    *)
(* <<numerator, denominator>> and compared by cross-multiplication, so that  *)
(* a comparison with 0.20 or 0.10 is exact.  The balance arithmetic of       *)
(* `current_bankroll += result` is modelled a second time in IEEE-754        *)
(* binary64 (section "binary64 accounting") where exactness is the question. *)
EXTENDS Integers, Sequences, FiniteSets, TLC

VARIABLES
    \* ---- core/risk_management.py: RiskManager ----
    initial_bankroll,   \* RiskManager.initial_bankroll (cents)
    base_unit,          \* RiskManager.base_unit (cents)
    current_bankroll,   \* RiskManager.current_bankroll (cents)
    bankroll_state,     \* RiskManager.bankroll_state : BankrollState
    session_results,    \* RiskManager.session_results
    daily_results,      \* RiskManager.daily_results
    results_history,    \* RiskManager.volatility_analyzer.results_history
    session_active,     \* RiskManager.session_active
    emergency_stop,     \* RiskManager.emergency_stop
    cooling_down,       \* RiskManager.cooling_down
    ret,                \* the last RiskManager / KellyCriterion call and what it returned
    \* ---- core/kelly_bankroll_manager.py: KellyBankrollManager ----
    kbm,                \* the manager: initial_bankroll, current_bankroll, fractional_kelly, bet_history
    kbm_ret,            \* the last KellyBankrollManager call and what it returned
    \* ---- the two bankrolls in binary64 ----
    b64,                \* initial balance, stake, and both bankrolls after the recorded losses
    \* ---- core/signal_generator.py: SignalGenerator, SignalManager ----
    history,            \* SignalGenerator.history (GameData by round number)
    signal_stats,       \* SignalGenerator.signal_stats
    active_signals,     \* SignalManager.active_signals
    signal_history,     \* SignalManager.signal_history
    events,             \* number of outcome events passed to process_new_game_data so far
    sm_ret,             \* what the last process_new_game_data did
    \* ---- the stages of the signal pipeline, called one at a time ----
    sg,                 \* the last stage call, its arguments and what it computed
    \* ---- core/monte_carlo.py: MonteCarloEngine ----
    mc,                 \* the simulation in progress: shoe, hands, worker batches
    \* ---- core/prediction_engine.py: PredictionEngine ----
    pe,                 \* the loaded model (or none), the last analyze call and its result
    \* ---- core/decision_engine.py: DecisionEngine ----
    de,                 \* bankroll, stats, the last make_decision / record_result call
    \* ---- bot_avanzado_completo.py: AdvancedBaccaratBot tasks ----
    bot                 \* DataAggregator buffer, task positions, executed bets

rmVars == <<initial_bankroll, base_unit, current_bankroll, bankroll_state,
            session_results, daily_results, results_history, session_active,
            emergency_stop, cooling_down, ret>>

kbmVars == <<kbm, kbm_ret>>

smVars == <<history, signal_stats, active_signals, signal_history, events, sm_ret>>

vars == <<rmVars, kbmVars, b64, smVars, sg, mc, pe, de, bot>>

\* what the operations of one component do not touch
notRmVars == <<kbmVars, b64, smVars, sg, mc, pe, de, bot>>
notKbmVars == <<rmVars, b64, smVars, sg, mc, pe, de, bot>>
notB64Vars == <<rmVars, kbmVars, smVars, sg, mc, pe, de, bot>>
notSmVars == <<rmVars, kbmVars, b64, sg, mc, pe, de, bot>>
notSgVars == <<rmVars, kbmVars, b64, smVars, mc, pe, de, bot>>
notMcVars == <<rmVars, kbmVars, b64, smVars, sg, pe, de, bot>>
notPeVars == <<rmVars, kbmVars, b64, smVars, sg, mc, de, bot>>
notDeVars == <<rmVars, kbmVars, b64, smVars, sg, mc, pe, bot>>
coreVars == <<kbmVars, b64, sg, mc, pe, de>>

-----------------------------------------------------------------------------
(* Scales of the number grid *)
PScale == 1000
OScale == 100
FScale == 10000

(* Bounds of the model *)
MaxRecords == 4
MaxKellyBets == 4
MaxLosses == 6
MaxEvents == 1010
MaxOrchestratorEvents == 15
MaxResults == 5
MaxTail == 4
MaxHands == 2
MaxBatch == 2
MaxSimulations == 4
MaxCores == 3
MaxHistory == 62
MaxSignals == 1001
MaxActive == 2
MaxBotData == 2
MaxBotSignals == 1
MaxIterations == 3
MaxDecisionBets == 3

(* Inputs enumerated by the model *)
\* <<initial_bankroll, base_unit>> in cents: 100.00/10.00 and 400.00/10.00
RiskConfigs == { <<10000, 1000>>, <<40000, 1000>> }
\* the same and a bankroll of 5.00 under the default base unit of 10.00
SizedConfigs == RiskConfigs \cup { <<500, 1000>> }
\* record_bet_result calls of a fixed 10.00 stake: a loss, the registration of a
\* pending bet (result 0) and a win
FixedBets == { <<1000, -1000, "P">>, <<1000, 0, "pending">>, <<1000, 1000, "B">> }
WinProbs == {500, 600, 1000}
OddsChoices == {100, 200}
ConfidenceLevels == {"HIGH", "MEDIUM"}

-----------------------------------------------------------------------------
(* Helpers *)
Max(a, b) == IF a >= b THEN a ELSE b
Min(a, b) == IF a <= b THEN a ELSE b

RECURSIVE SumSeq(_)
SumSeq(s) == IF s = <<>> THEN 0 ELSE Head(s) + SumSeq(Tail(s))

RECURSIVE SumSqSeq(_)
SumSqSeq(s) == IF s = <<>> THEN 0 ELSE Head(s) * Head(s) + SumSqSeq(Tail(s))

\* x * n / d of a float product, on the integer grid
MulFrac(x, n, d) == (x * n) \div d

\* a ratio a/b (b > 0) compared with the ratio c/d (d > 0)
RatioGT(r, s) == r[1] * s[2] > s[1] * r[2]

Return(op, raised, value, flag) ==
    [op |-> op, raised |-> raised, value |-> value, flag |-> flag]

-----------------------------------------------------------------------------
(* binary64 accounting.  A Python float is IEEE-754 binary64: a sign and a   *)
(* magnitude that is a multiple of 2^-56 with at most 53 significant bits.   *)
(* The magnitude is written as its bits in units of 2^-56, least significant *)
(* bit first, without leading zeros; + and - round to nearest, ties to even. *)
Precision == 53
FractionBits == 56

RECURSIVE Trim(_)
Trim(bits) ==
    IF bits = <<>> THEN <<>>
    ELSE IF bits[Len(bits)] = 0 THEN Trim(SubSeq(bits, 1, Len(bits) - 1))
    ELSE bits

RECURSIVE NatBits(_)
NatBits(n) == IF n = 0 THEN <<>> ELSE <<n % 2>> \o NatBits(n \div 2)

Zeros(k) == [i \in 1..k |-> 0]

\* the bits of a number given by its hexadecimal digits, most significant first
RECURSIVE FromHex(_)
FromHex(digits) ==
    IF digits = <<>> THEN <<>>
    ELSE LET d == digits[Len(digits)]
         IN  <<d % 2, (d \div 2) % 2, (d \div 4) % 2, (d \div 8) % 2>>
             \o FromHex(SubSeq(digits, 1, Len(digits) - 1))

Bit(bits, i) == IF i >= 1 /\ i <= Len(bits) THEN bits[i] ELSE 0

Rest(bits) == IF bits = <<>> THEN <<>> ELSE Tail(bits)

RECURSIVE AddCarry(_, _, _)
AddCarry(a, b, carry) ==
    IF a = <<>> /\ b = <<>> THEN (IF carry = 1 THEN <<1>> ELSE <<>>)
    ELSE LET t == Bit(a, 1) + Bit(b, 1) + carry
         IN  <<t % 2>> \o AddCarry(Rest(a), Rest(b), t \div 2)

AddBits(a, b) == Trim(AddCarry(a, b, 0))

RECURSIVE SubBorrow(_, _, _)
SubBorrow(a, b, borrow) ==
    IF a = <<>> THEN <<>>
    ELSE LET t == Bit(a, 1) - Bit(b, 1) - borrow
         IN  <<(t + 2) % 2>> \o SubBorrow(Rest(a), Rest(b), IF t < 0 THEN 1 ELSE 0)

\* a - b for a >= b
SubBits(a, b) == Trim(SubBorrow(a, b, 0))

LessBits(a, b) ==
    IF Len(a) # Len(b) THEN Len(a) < Len(b)
    ELSE \E i \in 1..Len(a) :
            /\ a[i] < b[i]
            /\ \A j \in (i + 1)..Len(a) : a[j] = b[j]

\* round to Precision significant bits, to nearest, ties to even
RoundBits(bits) ==
    IF Len(bits) <= Precision THEN bits
    ELSE LET k == Len(bits) - Precision
             kept == SubSeq(bits, k + 1, Len(bits))
             guard == bits[k]
             sticky == \E i \in 1..(k - 1) : bits[i] = 1
             up == guard = 1 /\ (sticky \/ kept[1] = 1)
         IN  Zeros(k) \o (IF up THEN AddBits(kept, <<1>>) ELSE kept)

Float(neg, mag) == [neg |-> neg /\ mag # <<>>, mag |-> mag]

\* the float sum x + y
FloatAdd(x, y) ==
    IF x.neg = y.neg THEN Float(x.neg, RoundBits(AddBits(x.mag, y.mag)))
    ELSE IF LessBits(x.mag, y.mag) THEN Float(y.neg, RoundBits(SubBits(y.mag, x.mag)))
    ELSE Float(x.neg, RoundBits(SubBits(x.mag, y.mag)))

FloatNeg(x) == Float(~x.neg, x.mag)

FloatSub(x, y) == FloatAdd(x, FloatNeg(y))

\* n * bits without rounding
RECURSIVE TimesBits(_, _)
TimesBits(n, bits) == IF n = 0 THEN <<>> ELSE AddBits(bits, TimesBits(n - 1, bits))

\* the float product n * x of an int n >= 0 and a float x
FloatMulNat(n, x) == Float(x.neg, RoundBits(TimesBits(n, x.mag)))

\* the float of a whole amount
FloatOfNat(n) == Float(FALSE, Zeros(FractionBits) \o NatBits(n))

\* the literals 0.1 = 0x1999999999999A * 2^-56 and 0.5 = 2^-1
Float_0_1 == Float(FALSE, Trim(FromHex(<<1, 9, 9, 9, 9, 9, 9, 9, 9, 9, 9, 9, 9, 10>>)))
Float_0_5 == Float(FALSE, Zeros(FractionBits - 1) \o <<1>>)

-----------------------------------------------------------------------------
(* KellyCriterion *)
conservative_factor == 25   \* hundredths: 0.25

\* calculate_kelly_fraction: [raised, value]; value in 1/FScale
calculate_kelly_fraction(win_probability, odds) ==
    IF win_probability <= 0 \/ win_probability >= PScale
    THEN [raised |-> "none", value |-> 0]
    ELSE LET b == odds - OScale
             p == win_probability
             q == PScale - p
             \* (b*p - q) in 1/(OScale*PScale)
             num == b * p - OScale * q
         IN  IF b = 0
             THEN [raised |-> "ZeroDivisionError", value |-> 0]
             ELSE LET scaled == IF b > 0
                                THEN (num * (FScale \div PScale) * conservative_factor) \div (b * 100)
                                ELSE ((0 - num) * (FScale \div PScale) * conservative_factor) \div ((0 - b) * 100)
                  IN [raised |-> "none", value |-> Max(0, scaled)]

\* KellyCriterion.calculate_bet_size with max_bet_pct = 0.05
kelly_calculate_bet_size(bankroll, kelly_fraction) ==
    LET optimal_bet == MulFrac(bankroll, kelly_fraction, FScale)
        max_bet == MulFrac(bankroll, 5, 100)
    IN  Min(optimal_bet, max_bet)

-----------------------------------------------------------------------------
(* VolatilityAnalyzer *)
window_size == 50
min_volatility_samples == 10

add_result(hist, result) ==
    LET appended == Append(hist, result)
    IN  IF Len(appended) > window_size THEN Tail(appended) ELSE appended

\* calculate_volatility, as the variance <<numerator, denominator>> in cents^2:
\* 0.1 by default (10 cents), else the population variance of np.std
calculate_volatility(hist) ==
    IF Len(hist) < min_volatility_samples
    THEN <<10 * 10, 1>>
    ELSE LET n == Len(hist)
         IN  <<n * SumSqSeq(hist) - SumSeq(hist) * SumSeq(hist), n * n>>

\* volatility < c, the threshold c given in cents
VolatilityBelow(hist, c) ==
    LET v == calculate_volatility(hist) IN v[1] < c * c * v[2]

VolatilityAbove(hist, c) ==
    LET v == calculate_volatility(hist) IN v[1] > c * c * v[2]

\* get_volatility_adjustment, in hundredths
get_volatility_adjustment(hist) ==
    IF VolatilityBelow(hist, 50) THEN 120
    ELSE IF VolatilityBelow(hist, 100) THEN 100
    ELSE IF VolatilityBelow(hist, 200) THEN 80
    ELSE 60

predict_session_volatility(hist) ==
    IF VolatilityBelow(hist, 50) THEN "LOW"
    ELSE IF VolatilityBelow(hist, 100) THEN "MEDIUM"
    ELSE IF VolatilityBelow(hist, 200) THEN "HIGH"
    ELSE "EXTREME"

-----------------------------------------------------------------------------
(* RiskManager *)
limits ==
    [max_daily_loss |-> MulFrac(initial_bankroll, 10, 100),
     max_session_loss |-> MulFrac(initial_bankroll, 5, 100),
     max_drawdown |-> MulFrac(initial_bankroll, 20, 100),
     daily_profit_target |-> MulFrac(initial_bankroll, 5, 100),
     session_profit_target |-> MulFrac(initial_bankroll, 2, 100)]

RiskManagerInit(cfg) ==
    /\ initial_bankroll = cfg[1]
    /\ base_unit = cfg[2]
    /\ current_bankroll = cfg[1]
    /\ bankroll_state = [total_balance |-> cfg[1], session_balance |-> cfg[1],
                         daily_balance |-> cfg[1], weekly_balance |-> cfg[1],
                         max_drawdown |-> <<0, 1>>, peak_balance |-> cfg[1],
                         current_streak |-> 0, losing_streak |-> 0,
                         winning_streak |-> 0]
    /\ session_results = <<>>
    /\ daily_results = <<>>
    /\ results_history = <<>>
    /\ session_active = FALSE
    /\ emergency_stop = FALSE
    /\ cooling_down = FALSE
    /\ ret = Return("__init__", "none", 0, FALSE)

\* start_session as it would behave if a new session also cleared the stop flag
start_session_clearing_stop ==
    /\ session_active' = TRUE
    /\ session_results' = <<>>
    /\ bankroll_state' = [bankroll_state EXCEPT !.session_balance = current_bankroll]
    /\ emergency_stop' = FALSE
    /\ ret' = Return("start_session", "none", 0, FALSE)
    /\ UNCHANGED <<initial_bankroll, base_unit, current_bankroll, daily_results,
                   results_history, cooling_down>>
    /\ UNCHANGED notRmVars

start_session ==
    /\ session_active' = TRUE
    /\ session_results' = <<>>
    /\ bankroll_state' = [bankroll_state EXCEPT !.session_balance = current_bankroll]
    /\ ret' = Return("start_session", "none", 0, FALSE)
    /\ UNCHANGED <<initial_bankroll, base_unit, current_bankroll, daily_results,
                   results_history, emergency_stop, cooling_down>>
    /\ UNCHANGED notRmVars

\* _update_session_statistics as it would behave if it also restarted the peak
update_session_statistics_resetting_peak(new_day) ==
    /\ bankroll_state' = [bankroll_state EXCEPT !.session_balance = current_bankroll,
                                                !.peak_balance = current_bankroll]
    /\ daily_results' = IF new_day THEN <<>> ELSE daily_results

\* _update_session_statistics; new_day: today differs from the day of daily_start_time
update_session_statistics(new_day) ==
    /\ bankroll_state' = [bankroll_state EXCEPT !.session_balance = current_bankroll]
    /\ daily_results' = IF new_day THEN <<>> ELSE daily_results

end_session ==
    /\ session_active' = FALSE
    /\ \E new_day \in BOOLEAN : update_session_statistics(new_day)
    /\ ret' = Return("end_session", "none", SumSeq(session_results), FALSE)
    /\ UNCHANGED <<initial_bankroll, base_unit, current_bankroll, session_results,
                   results_history, emergency_stop, cooling_down>>
    /\ UNCHANGED notRmVars

\* should_continue_session; timed_out: more than 7200 s since session_start_time
should_continue_value(timed_out) ==
    IF ~session_active THEN FALSE
    ELSE IF emergency_stop THEN FALSE
    ELSE IF bankroll_state.session_balance - current_bankroll >= limits.max_session_loss THEN FALSE
    ELSE IF current_bankroll - bankroll_state.session_balance >= limits.session_profit_target THEN FALSE
    ELSE IF timed_out THEN FALSE
    ELSE IF VolatilityAbove(results_history, 300) THEN FALSE
    ELSE TRUE

should_continue_session ==
    /\ \E timed_out \in BOOLEAN :
         ret' = Return("should_continue_session", "none", 0, should_continue_value(timed_out))
    /\ UNCHANGED <<initial_bankroll, base_unit, current_bankroll, bankroll_state,
                   session_results, daily_results, results_history, session_active,
                   emergency_stop, cooling_down>>
    /\ UNCHANGED notRmVars

confidence_multiplier(confidence_level) ==
    CASE confidence_level = "HIGH" -> 100
      [] confidence_level = "MEDIUM" -> 70
      [] confidence_level = "LOW" -> 40
      [] OTHER -> 50

\* RiskManager.calculate_bet_size: [raised, value]
calculate_bet_size_value(win_probability, confidence_level, odds) ==
    IF emergency_stop \/ ~session_active
    THEN [raised |-> "none", value |-> 0]
    ELSE LET kf == calculate_kelly_fraction(win_probability, odds)
         IN  IF kf.raised # "none"
             THEN [raised |-> kf.raised, value |-> 0]
             ELSE LET kelly_bet == kelly_calculate_bet_size(current_bankroll, kf.value)
                      scaled == MulFrac(MulFrac(kelly_bet, confidence_multiplier(confidence_level), 100),
                                        get_volatility_adjustment(results_history), 100)
                      max_bet == MulFrac(current_bankroll, 5, 100)
                      min_bet == base_unit
                  IN [raised |-> "none", value |-> Max(min_bet, Min(scaled, max_bet))]

calculate_bet_size ==
    /\ \E p \in WinProbs, c \in ConfidenceLevels, o \in OddsChoices :
         LET r == calculate_bet_size_value(p, c, o)
         IN  ret' = Return("calculate_bet_size", r.raised, r.value, FALSE)
    /\ UNCHANGED <<initial_bankroll, base_unit, current_bankroll, bankroll_state,
                   session_results, daily_results, results_history, session_active,
                   emergency_stop, cooling_down>>
    /\ UNCHANGED notRmVars

\* the drawdown measured from the initial bankroll in the place of the peak
drawdown_from_initial(peak, bankroll) == <<initial_bankroll - bankroll, initial_bankroll>>

\* the drawdown from the peak, as <<numerator, denominator>>
current_drawdown(peak, bankroll) == <<peak - bankroll, peak>>

\* max_drawdown > 0.20
emergency_threshold_crossed(max_drawdown) == RatioGT(max_drawdown, <<20, 100>>)

record_bet_result(bet_amount, result, outcome) ==
    LET bankroll == current_bankroll + result
        streaks == IF result > 0
                   THEN [bankroll_state EXCEPT !.winning_streak = @ + 1,
                                               !.losing_streak = 0,
                                               !.current_streak = @ + 1]
                   ELSE [bankroll_state EXCEPT !.losing_streak = @ + 1,
                                               !.winning_streak = 0,
                                               !.current_streak = @ - 1]
        peak == IF bankroll > streaks.peak_balance THEN bankroll ELSE streaks.peak_balance
        dd == current_drawdown(peak, bankroll)
        max_dd == IF RatioGT(dd, streaks.max_drawdown) THEN dd ELSE streaks.max_drawdown
    IN  /\ current_bankroll' = bankroll
        /\ session_results' = Append(session_results, result)
        /\ daily_results' = Append(daily_results, result)
        /\ results_history' = add_result(results_history, result)
        /\ bankroll_state' = [streaks EXCEPT !.peak_balance = peak, !.max_drawdown = max_dd]
        /\ emergency_stop' = IF emergency_threshold_crossed(max_dd) THEN TRUE ELSE emergency_stop
        /\ ret' = Return("record_bet_result", "none", result, FALSE)
        /\ UNCHANGED <<initial_bankroll, base_unit, session_active, cooling_down>>

record_fixed ==
    /\ Len(results_history) < MaxRecords
    /\ \E b \in FixedBets : record_bet_result(b[1], b[2], b[3])
    /\ UNCHANGED notRmVars

\* the bet returned by the preceding calculate_bet_size is placed and settled
record_sized ==
    /\ Len(results_history) < MaxRecords
    /\ ret.op = "calculate_bet_size"
    /\ ret.raised = "none"
    /\ ret.value > 0
    /\ \E won \in BOOLEAN :
         record_bet_result(ret.value, IF won THEN ret.value ELSE 0 - ret.value,
                           IF won THEN "B" ELSE "P")
    /\ UNCHANGED notRmVars

\* get_risk_assessment: the snapshot dictionary (the value-at-risk entry left out)
risk_assessment ==
    [current_bankroll |-> current_bankroll,
     session_profit_loss |-> SumSeq(session_results),
     daily_profit_loss |-> SumSeq(daily_results),
     max_drawdown |-> bankroll_state.max_drawdown,
     volatility_risk |-> predict_session_volatility(results_history),
     current_streak |-> bankroll_state.current_streak,
     losing_streak |-> bankroll_state.losing_streak,
     winning_streak |-> bankroll_state.winning_streak,
     emergency_stop_active |-> emergency_stop,
     session_active |-> session_active]

get_risk_assessment ==
    /\ ret' = Return("get_risk_assessment", "none", risk_assessment.current_bankroll,
                     risk_assessment.emergency_stop_active)
    /\ UNCHANGED <<initial_bankroll, base_unit, current_bankroll, bankroll_state,
                   session_results, daily_results, results_history, session_active,
                   emergency_stop, cooling_down>>
    /\ UNCHANGED notRmVars

\* get_bet_sizing_recommendation: calculate_bet_size with the default odds 1.0,
\* _assess_bet_risk (bet_size / current_bankroll), then
\* calculate_kelly_fraction(win_probability, 1.0) for the report
bet_sizing_recommendation(win_probability, confidence_level) ==
    LET bet == calculate_bet_size_value(win_probability, confidence_level, OScale)
        kf == calculate_kelly_fraction(win_probability, OScale)
    IN  IF bet.raised # "none" THEN bet
        ELSE IF current_bankroll = 0 THEN [raised |-> "ZeroDivisionError", value |-> 0]
        ELSE IF kf.raised # "none" THEN [raised |-> kf.raised, value |-> 0]
        ELSE bet

get_bet_sizing_recommendation ==
    /\ \E p \in WinProbs, c \in ConfidenceLevels :
         LET r == bet_sizing_recommendation(p, c)
         IN  ret' = Return("get_bet_sizing_recommendation", r.raised, r.value, FALSE)
    /\ UNCHANGED <<initial_bankroll, base_unit, current_bankroll, bankroll_state,
                   session_results, daily_results, results_history, session_active,
                   emergency_stop, cooling_down>>
    /\ UNCHANGED notRmVars

\* a direct call of RiskManager.kelly.calculate_kelly_fraction
kelly_fraction_call ==
    /\ \E p \in WinProbs, o \in OddsChoices :
         LET r == calculate_kelly_fraction(p, o)
         IN  ret' = [op |-> "calculate_kelly_fraction", raised |-> r.raised,
                     value |-> r.value, flag |-> FALSE, args |-> <<p, o>>]
    /\ UNCHANGED <<initial_bankroll, base_unit, current_bankroll, bankroll_state,
                   session_results, daily_results, results_history, session_active,
                   emergency_stop, cooling_down>>
    /\ UNCHANGED notRmVars

-----------------------------------------------------------------------------
(* KellyBankrollManager *)
KellyBankrolls == {10000}
\* update_bankroll inputs <<bet_size, won, actual_payout>> in cents
KellyBets == { <<1000, FALSE, 0>>, <<1500, FALSE, 0>>, <<1000, TRUE, 2000>>, <<1500, TRUE, 3000>> }
\* calculate_kelly_bet inputs <<perceived_prob (thousandths), bet_type>>
KellyQueries == { <<80, "Tie">>, <<200, "Tie">>, <<600, "Dragon">>, <<1100, "Tiger">> }

payouts == [Dragon |-> 1, Tiger |-> 1, Tie |-> 11]

KellyBankrollManagerInit(initial) ==
    /\ kbm = [initial_bankroll |-> initial, current_bankroll |-> initial,
              fractional_kelly |-> 25, bet_history |-> <<>>]
    /\ kbm_ret = [op |-> "__init__", raised |-> "none", bet_size |-> 0, should_bet |-> FALSE]

\* calculate_kelly_bet with edge_threshold = 0.02.  settings.bankroll is a
\* BankrollConfig without a min_bet attribute.
calculate_kelly_bet_value(perceived_prob, bet_type) ==
    LET payout == payouts[bet_type]
        \* edge in thousandths
        edge == perceived_prob * payout - PScale
        b == payout - 1
        p == perceived_prob
        q == PScale - p
    IN  IF edge < 20
        THEN [raised |-> "none", bet_size |-> 0, should_bet |-> FALSE]
        ELSE IF b = 0
        THEN [raised |-> "ZeroDivisionError", bet_size |-> 0, should_bet |-> FALSE]
        ELSE LET \* kelly_fraction in thousandths, bet_size in cents
                 kelly_fraction == (b * p - q) \div b
                 bet_size == MulFrac(MulFrac(kbm.current_bankroll, kelly_fraction, PScale),
                                     kbm.fractional_kelly, 100)
             IN  \* line 46: settings.bankroll.min_bet
                 [raised |-> "AttributeError", bet_size |-> 0, should_bet |-> FALSE]

calculate_kelly_bet ==
    /\ \E query \in KellyQueries :
         LET r == calculate_kelly_bet_value(query[1], query[2])
         IN  kbm_ret' = [op |-> "calculate_kelly_bet", raised |-> r.raised,
                         bet_size |-> r.bet_size, should_bet |-> r.should_bet,
                         args |-> query]
    /\ UNCHANGED kbm
    /\ UNCHANGED notKbmVars

RECURSIVE MaxOfSeq(_)
MaxOfSeq(seq) == IF Len(seq) = 1 THEN seq[1] ELSE Max(Head(seq), MaxOfSeq(Tail(seq)))

\* the multiplier chosen from the drawdown <<numerator, denominator>>
fractional_kelly_for(drawdown) ==
    IF RatioGT(drawdown, <<2, 10>>) THEN 10
    ELSE IF RatioGT(drawdown, <<1, 10>>) THEN 20
    ELSE 25

update_bankroll_step(bet_size, won, actual_payout) ==
    LET profit == IF won THEN actual_payout - bet_size ELSE 0 - bet_size
        bankroll == kbm.current_bankroll + profit
        bets == Append(kbm.bet_history,
                          [bet_size |-> bet_size, won |-> won, profit |-> profit,
                           bankroll |-> bankroll])
        max_bankroll == MaxOfSeq(<<kbm.initial_bankroll>>
                                 \o [i \in 1..Len(bets) |-> bets[i].bankroll])
        drawdown == <<max_bankroll - bankroll, max_bankroll>>
    IN  /\ kbm' = [kbm EXCEPT !.current_bankroll = bankroll,
                              !.bet_history = bets,
                              !.fractional_kelly = fractional_kelly_for(drawdown)]
        /\ kbm_ret' = [op |-> "update_bankroll", raised |-> "none", bet_size |-> bet_size,
                        should_bet |-> FALSE]
        /\ UNCHANGED notKbmVars

update_bankroll ==
    /\ Len(kbm.bet_history) < MaxKellyBets
    /\ \E bet \in KellyBets : update_bankroll_step(bet[1], bet[2], bet[3])

-----------------------------------------------------------------------------
(* The two bankrolls in binary64: N losses of a fixed stake *)
Binary64Balances == { FloatOfNat(1000), FloatOfNat(100), FloatOfNat(1) }
Binary64Stakes == { Float_0_1, Float_0_5, FloatOfNat(10) }

Binary64Init(balance, stake) ==
    b64 = [initial |-> balance, stake |-> stake,
           rm_bankroll |-> balance, rm_losses |-> 0,
           kbm_bankroll |-> balance, kbm_losses |-> 0]

\* RiskManager.record_bet_result(stake, -stake, outcome): current_bankroll += result
record_loss_binary64 ==
    /\ b64.rm_losses < MaxLosses
    /\ LET result == FloatNeg(b64.stake)
       IN  b64' = [b64 EXCEPT !.rm_bankroll = FloatAdd(b64.rm_bankroll, result),
                              !.rm_losses = @ + 1]
    /\ UNCHANGED notB64Vars

\* KellyBankrollManager.update_bankroll(stake, outcome, predicted, payout) with
\* outcome # predicted: profit = -bet_size; current_bankroll += profit
update_bankroll_loss_binary64 ==
    /\ b64.kbm_losses < MaxLosses
    /\ LET profit == FloatNeg(b64.stake)
       IN  b64' = [b64 EXCEPT !.kbm_bankroll = FloatAdd(b64.kbm_bankroll, profit),
                              !.kbm_losses = @ + 1]
    /\ UNCHANGED notB64Vars

-----------------------------------------------------------------------------
(* SignalGenerator and SignalManager.  A GameData record is taken by the     *)
(* round number of the feed.                                                 *)
None == "None"
max_history_size == 1000
signal_interval == 7

SignalManagerInit ==
    /\ history = <<>>
    /\ signal_stats = [total_signals |-> 0, high_confidence_signals |-> 0]
    /\ active_signals = <<>>
    /\ signal_history = <<>>
    /\ events = 0
    /\ sm_ret = [op |-> "__init__", ran_pipeline |-> FALSE, signal |-> None]

\* add_game_data with history.pop() in the place of history.pop(0)
add_game_data_evicting_newest(hist, game_data) ==
    LET appended == Append(hist, game_data)
    IN  IF Len(appended) > max_history_size THEN SubSeq(appended, 1, max_history_size)
        ELSE appended

add_game_data(hist, game_data) ==
    LET appended == Append(hist, game_data)
    IN  IF Len(appended) > max_history_size THEN Tail(appended) ELSE appended

\* _combine_predictions: the reasoning dictionary reads pattern_analysis, which
\* is neither a parameter nor a global of the method
combine_predictions(neural_pred, monte_carlo_result, bayesian_probs) ==
    [raised |-> "NameError", value |-> None]

\* generate_signal: any exception of the pipeline is logged and None returned
generate_signal(hist, current_game) ==
    LET final_prediction == combine_predictions("neural_pred", "monte_carlo_result",
                                                "bayesian_probs")
    IN  IF final_prediction.raised # "none" THEN None ELSE final_prediction.value

\* _process_signal; expired: the active signals older than five minutes
process_signal(signal, expired) ==
    /\ active_signals' = SelectSeq(Append(active_signals, signal),
                                   LAMBDA sig : sig \notin expired)
    /\ signal_history' = Append(signal_history, signal)

\* process_new_game_data(game_data), the SignalManager's part of the state
process_new_game_data_of(game_data) ==
    LET hist == add_game_data(history, game_data)
        due == Len(hist) % signal_interval = 0
        signal == IF due THEN generate_signal(hist, game_data) ELSE None
    IN  /\ events' = events + 1
        /\ history' = hist
        /\ IF signal # None /\ signal.bet_size > 0
           THEN \E expired \in SUBSET {active_signals[i] : i \in 1..Len(active_signals)} :
                    process_signal(signal, expired)
           ELSE UNCHANGED <<active_signals, signal_history>>
        /\ signal_stats' = IF signal # None
                           THEN [signal_stats EXCEPT !.total_signals = @ + 1]
                           ELSE signal_stats
        /\ sm_ret' = [op |-> "process_new_game_data", ran_pipeline |-> due, signal |-> signal]

\* the outcome events are numbered in arrival order
process_new_game_data ==
    /\ events < MaxEvents
    /\ process_new_game_data_of(events + 1)
    /\ UNCHANGED notSmVars

\* a Signal with a bet, as generate_signal would hand it to _process_signal:
\* the timestamp counts the signals created so far, win_probability is the
\* largest of its monte_carlo_probs
new_signal(timestamp, bet, units, confidence, win_probability) ==
    [timestamp |-> timestamp, recommended_bet |-> bet, bet_size |-> units,
     confidence |-> confidence, win_probability |-> win_probability]

\* _process_signal(signal), the SignalManager's part of the state; the signals
\* older than five minutes are the oldest of the active ones
process_signal_of(signal) ==
    /\ \E j \in 0..Len(active_signals) :
         /\ Len(active_signals) + 1 - j <= MaxActive
         /\ process_signal(signal, {active_signals[i] : i \in 1..j})
    /\ sm_ret' = [op |-> "_process_signal", ran_pipeline |-> FALSE, signal |-> signal]
    /\ UNCHANGED <<history, signal_stats, events>>

process_signal_call ==
    /\ Len(signal_history) < MaxSignals
    /\ process_signal_of(new_signal(Len(signal_history) + 1, "B", 1, "HIGH", 600))
    /\ UNCHANGED notSmVars

-----------------------------------------------------------------------------
(* core/neural_networks.py: PatternAnalyzer.  A list of results is a         *)
(* sequence of "B", "P", "T"; a float quotient is kept as the exact pair     *)
(* <<numerator, denominator>>.                                               *)
Outcomes == {"B", "P", "T"}

\* every sequence over S of length 0..n
RECURSIVE SeqsUpTo(_, _)
SeqsUpTo(S, n) ==
    IF n = 0 THEN {<<>>}
    ELSE LET shorter == SeqsUpTo(S, n - 1)
         IN  shorter \cup {Append(s, x) : s \in {t \in shorter : Len(t) = n - 1}, x \in S}

SeqsOfLen(S, n) == {s \in SeqsUpTo(S, n) : Len(s) = n}

\* results[-n:]
LastN(s, n) == IF Len(s) <= n THEN s ELSE SubSeq(s, Len(s) - n + 1, Len(s))

\* a/b < c/d for a, c >= 0 and b, d > 0, by comparing the continued fractions
\* (no product is formed)
RECURSIVE FracLess(_, _, _, _)
FracLess(a, b, c, d) ==
    IF a \div b # c \div d THEN a \div b < c \div d
    ELSE IF a % b = 0 THEN c % d > 0
    ELSE IF c % d = 0 THEN FALSE
    ELSE FracLess(d, c % d, b, a % b)

\* r > s for two pairs <<numerator, denominator>>
FracGT(r, s) == FracLess(s[1], s[2], r[1], r[2])

\* _calculate_streak_break_prob: min(0.95, 1.0 / streak_length ** 2 + 0.1)
calculate_streak_break_prob(streak_length) ==
    LET sq == streak_length * streak_length
        raw == <<10 + sq, 10 * sq>>
    IN  IF RatioGT(raw, <<95, 100>>) THEN <<95, 100>> ELSE raw

\* the loop of detect_streaks: i runs from len(results)-2 down to 0 (here from
\* len(results)-1 down to 1) and stops at the first different result
RECURSIVE streak_scan(_, _, _, _)
streak_scan(results, i, current_type, streak_length) ==
    IF i < 1 THEN streak_length
    ELSE IF results[i] = current_type
         THEN streak_scan(results, i - 1, current_type, streak_length + 1)
         ELSE streak_length

detect_streaks(results) ==
    IF Len(results) < 2
    THEN [current_streak |-> 0, streak_type |-> None]
    ELSE LET current_type == results[Len(results)]
             streak_length == streak_scan(results, Len(results) - 1, current_type, 1)
         IN  [current_streak |-> streak_length,
              streak_type |-> current_type,
              streak_break_probability |-> calculate_streak_break_prob(streak_length)]

\* detect_chops: chop_intensity = chop_count / (len(results) - 1)
detect_chops(results) ==
    IF Len(results) < 3
    THEN [chop_count |-> 0, chop_intensity |-> <<0, 1>>]
    ELSE LET chop_count == Cardinality({i \in 2..Len(results) : results[i] # results[i - 1]})
         IN  [chop_count |-> chop_count,
              chop_intensity |-> <<chop_count, Len(results) - 1>>]

\* _calculate_pattern_strength: max(min(1.0, current_streak / 10), chop_intensity)
calculate_pattern_strength(streaks, chops) ==
    LET streak_strength == IF streaks.current_streak >= 10 THEN <<1, 1>>
                           ELSE <<streaks.current_streak, 10>>
        chop_strength == chops.chop_intensity
    IN  IF RatioGT(chop_strength, streak_strength) THEN chop_strength ELSE streak_strength

\* _analyze_current_patterns on the results of the history ({} below 10 games);
\* the shoe_patterns entry (outcome percentages) is read by no later stage
min_pattern_history == 10
pattern_window == 50
analyze_current_patterns(hist) ==
    IF Len(hist) < min_pattern_history
    THEN [empty |-> TRUE]
    ELSE LET results == LastN(hist, pattern_window)
             streaks == detect_streaks(results)
             chops == detect_chops(results)
         IN  [empty |-> FALSE,
              streaks |-> streaks,
              chops |-> chops,
              recent_results |-> LastN(results, 10),
              pattern_strength |-> calculate_pattern_strength(streaks, chops)]

detect_streaks_call ==
    /\ \E results \in SeqsUpTo(Outcomes, MaxResults) :
           sg' = [op |-> "detect_streaks", results |-> results,
                  value |-> detect_streaks(results)]
    /\ UNCHANGED notSgVars

-----------------------------------------------------------------------------
(* core/monte_carlo.py: BayesianUpdater.  A prior is in 1/PriorScale, a      *)
(* likelihood in 1/LScale (1.1 * 1.05 = 1.155 is exact there); a posterior   *)
(* is the exact pair <<likelihood * prior, evidence_prob>>.                  *)
PriorScale == 10000
LScale == 1000
prior_probabilities == [B |-> 4584, P |-> 4461, T |-> 955]

\* evidence.get(key, default)
Get(dict, key, default) == IF key \in DOMAIN dict THEN dict[key] ELSE default

calculate_likelihoods(evidence) ==
    LET streak_length == Get(evidence, "streak_length", 0)
        chop_intensity == Get(evidence, "chop_intensity", <<0, 1>>)
        start == [B |-> LScale, P |-> LScale, T |-> LScale]
        streaked ==
            IF streak_length > 3
            THEN LET current_streak == Get(evidence, "current_streak_type", "B")
                 IN  IF current_streak = "B"
                     THEN [start EXCEPT !.P = (@ * 11) \div 10, !.B = (@ * 9) \div 10]
                     ELSE [start EXCEPT !.B = (@ * 11) \div 10, !.P = (@ * 9) \div 10]
            ELSE start
    IN  IF RatioGT(chop_intensity, <<7, 10>>)
        THEN [B |-> (streaked.B * 105) \div 100,
              P |-> (streaked.P * 105) \div 100,
              T |-> (streaked.T * 9) \div 10]
        ELSE streaked

\* update_probabilities: no check of the evidence is made; the posterior is
\* returned for whatever evidence is given
update_probabilities(evidence) ==
    LET likelihoods == calculate_likelihoods(evidence)
        unnormalised == [o \in Outcomes |-> likelihoods[o] * prior_probabilities[o]]
        evidence_prob == unnormalised.B + unnormalised.P + unnormalised.T
    IN  [raised |-> "none",
         likelihoods |-> likelihoods,
         value |-> [o \in Outcomes |-> <<unnormalised[o], evidence_prob>>]]

\* SignalGenerator._apply_bayesian_update: the evidence built from the pattern
\* analysis (pattern_analysis.get(...).get(..., 0)) and the Monte Carlo result
build_evidence(pattern_analysis, monte_carlo_adjustment) ==
    [streak_length |-> IF pattern_analysis.empty THEN 0
                       ELSE pattern_analysis.streaks.current_streak,
     chop_intensity |-> IF pattern_analysis.empty THEN <<0, 1>>
                        ELSE pattern_analysis.chops.chop_intensity,
     recent_pattern |-> IF pattern_analysis.empty THEN <<>>
                        ELSE pattern_analysis.recent_results,
     monte_carlo_adjustment |-> monte_carlo_adjustment]

apply_bayesian_update(pattern_analysis, monte_carlo_adjustment) ==
    update_probabilities(build_evidence(pattern_analysis, monte_carlo_adjustment))

\* evidence records handed to update_probabilities directly: with and without
\* the streak type, well-formed and malformed
StreakLengths == {-1, 0, 3, 4}
ChopIntensities == {<<-5, 10>>, <<0, 1>>, <<7, 10>>, <<8, 10>>, <<15, 10>>}
base_probabilities == [B |-> 4584, P |-> 4461, T |-> 955]
Adjustments == {base_probabilities, [B |-> 5000, P |-> 3000, T |-> 1000]}

Evidences ==
    {[streak_length |-> n, chop_intensity |-> c, recent_pattern |-> <<>>,
      monte_carlo_adjustment |-> a] :
        n \in StreakLengths, c \in ChopIntensities, a \in Adjustments}
    \cup
    {[streak_length |-> n, current_streak_type |-> t, chop_intensity |-> c,
      recent_pattern |-> <<>>, monte_carlo_adjustment |-> a] :
        n \in StreakLengths, t \in Outcomes, c \in ChopIntensities, a \in Adjustments}

\* histories of results handed to _apply_bayesian_update through the pattern
\* analysis: a chopping stretch followed by every tail of MaxTail results, and
\* one history too short for the analysis
ChopStretch == <<"B", "P", "B", "P", "B", "P">>
PatternHistories ==
    {ChopStretch \o tail : tail \in SeqsOfLen(Outcomes, MaxTail)} \cup {ChopStretch}

update_probabilities_call ==
    /\ \E evidence \in Evidences :
           LET r == update_probabilities(evidence)
           IN  sg' = [op |-> "update_probabilities", evidence |-> evidence,
                      raised |-> r.raised, likelihoods |-> r.likelihoods,
                      value |-> r.value]
    /\ UNCHANGED notSgVars

apply_bayesian_update_call ==
    /\ \E hist \in PatternHistories :
           LET pattern_analysis == analyze_current_patterns(hist)
               evidence == build_evidence(pattern_analysis, base_probabilities)
               r == update_probabilities(evidence)
           IN  sg' = [op |-> "_apply_bayesian_update", results |-> hist,
                      pattern_analysis |-> pattern_analysis, evidence |-> evidence,
                      raised |-> r.raised, likelihoods |-> r.likelihoods,
                      value |-> r.value]
    /\ UNCHANGED notSgVars

-----------------------------------------------------------------------------
(* SignalGenerator: fusion, confidence and sizing.  The three distributions  *)
(* that are fused are in 1/PriorScale; the fused probability of an outcome   *)
(* is the exact pair <<weighted sum, total>>.  A confidence score is in      *)
(* 1/ScoreScale, where each of its four weighted factors is exact.           *)
ScoreScale == 10000

RECURSIVE Pow10(_)
Pow10(k) == IF k = 0 THEN 1 ELSE 10 * Pow10(k - 1)

\* the ratio num/den rounded down to the grid 10^-digits, by long division
RECURSIVE OnGrid(_, _, _)
OnGrid(num, den, digits) ==
    IF digits = 0 THEN num \div den
    ELSE (num \div den) * Pow10(digits) + OnGrid((num % den) * 10, den, digits - 1)

DistributionOnGrid(dist) == [o \in Outcomes |-> OnGrid(dist[o][1], dist[o][2], 4)]

\* EnsemblePredictor.predict_with_confidence: the LSTM probabilities times the
\* LSTM weight 0.6 (the CNN grid is built and not used)
lstm_weight == 60
predict_with_confidence(lstm_pred) ==
    [probabilities |-> [o \in Outcomes |-> (lstm_pred[o] * lstm_weight) \div 100]]

\* BaccaratLSTMPredictor.predict: the default of an untrained model, or the
\* softmax output of a trained one
lstm_default == [B |-> 4500, P |-> 4500, T |-> 1000]
LstmPredictions == {lstm_default,
                    [B |-> 9000, P |-> 500, T |-> 500],
                    [B |-> 0, P |-> 0, T |-> 10000]}

\* _get_neural_prediction: the fixed distribution below 20 games, the ensemble
\* after
neural_default == [probabilities |-> [B |-> 4500, P |-> 4500, T |-> 1000]]
NeuralPredictions == {neural_default} \cup {predict_with_confidence(l) : l \in LstmPredictions}

\* MonteCarloEngine._analyze_simulation_results on the tallies <<banker wins,
\* player wins, ties>> of all simulated hands: smoothing with the base
\* probabilities, then normalisation
smoothing_factor == 10
analyze_tallies(tally) ==
    LET total_hands == tally[1] + tally[2] + tally[3]
        wins == [B |-> tally[1], P |-> tally[2], T |-> tally[3]]
        \* adjusted * 0.9 + base * 0.1, over the denominator 100 * PriorScale * total_hands
        final_probs == [o \in Outcomes |->
                           wins[o] * (100 - smoothing_factor) * PriorScale
                           + base_probabilities[o] * smoothing_factor * total_hands]
        total == final_probs.B + final_probs.P + final_probs.T
    IN  IF total_hands = 0
        THEN [o \in Outcomes |-> <<base_probabilities[o], PriorScale>>]
        ELSE [o \in Outcomes |-> <<final_probs[o], total>>]

\* lines 228-257 of _combine_predictions: the weighted sum, its normalisation
\* and the recommended bet; max(final_probs, key=final_probs.get) returns the
\* first of B, P, T that has the largest probability
weights == [neural |-> 40, monte_carlo |-> 35, bayesian |-> 25]
WeightScale == 100

\* the sum left as it is (what line 253 does when total is 0)
leave_unnormalised(summed, total) ==
    [o \in Outcomes |-> <<summed[o], WeightScale * PriorScale>>]

\* lines 252-254
normalise_unless_zero(summed, total) ==
    IF total > 0 THEN [o \in Outcomes |-> <<summed[o], total>>]
    ELSE leave_unnormalised(summed, total)

fuse(neural_pred, mc_probs, bayesian_probs) ==
    LET summed == [o \in Outcomes |->
                      neural_pred.probabilities[o] * weights.neural
                      + mc_probs[o] * weights.monte_carlo
                      + bayesian_probs[o] * weights.bayesian]
        total == summed.B + summed.P + summed.T
        final_probs == normalise_unless_zero(summed, total)
        recommended_bet ==
            IF ~FracGT(final_probs.P, final_probs.B) /\ ~FracGT(final_probs.T, final_probs.B)
            THEN "B"
            ELSE IF ~FracGT(final_probs.T, final_probs.P) THEN "P" ELSE "T"
    IN  [recommended_bet |-> recommended_bet, probabilities |-> final_probs]

\* the tallies and the evidence behind the Monte Carlo and Bayesian inputs
TallyChoices == {<<0, 0, 0>>, <<10, 0, 0>>, <<5, 4, 1>>, <<4, 5, 1>>, <<0, 0, 10>>}
MonteCarloAdjustments == {DistributionOnGrid(analyze_tallies(t)) : t \in TallyChoices}
BayesianPosteriors == {DistributionOnGrid(update_probabilities(e).value) : e \in Evidences}

\* a call of _combine_predictions: the fused distribution is computed, then
\* the reasoning dictionary raises
combine_predictions_call ==
    /\ \E neural_pred \in NeuralPredictions, mc_probs \in MonteCarloAdjustments,
          bayesian_probs \in BayesianPosteriors :
           LET fused == fuse(neural_pred, mc_probs, bayesian_probs)
               r == combine_predictions(neural_pred, mc_probs, bayesian_probs)
           IN  sg' = [op |-> "_combine_predictions",
                      neural_pred |-> neural_pred, mc_probs |-> mc_probs,
                      bayesian_probs |-> bayesian_probs,
                      final_probs |-> fused.probabilities,
                      recommended_bet |-> fused.recommended_bet,
                      raised |-> r.raised, value |-> r.value]
    /\ UNCHANGED notSgVars

\* _calculate_confidence: max_prob and pattern_strength in 1/PScale
confidence_thresholds == [HIGH |-> 9000, MEDIUM |-> 7000, LOW |-> 5000]
bet_sizes == [HIGH |-> [min |-> 5, max |-> 7],
              MEDIUM |-> [min |-> 2, max |-> 4],
              LOW |-> [min |-> 0, max |-> 1]]
model_agreement == 800

\* lines 293-299 with HIGH tested by > instead of >=
confidence_level_above(confidence_score) ==
    IF confidence_score > confidence_thresholds.HIGH THEN "HIGH"
    ELSE IF confidence_score >= confidence_thresholds.MEDIUM THEN "MEDIUM"
    ELSE "LOW"

\* lines 293-299
confidence_level_of(confidence_score) ==
    IF confidence_score >= confidence_thresholds.HIGH THEN "HIGH"
    ELSE IF confidence_score >= confidence_thresholds.MEDIUM THEN "MEDIUM"
    ELSE "LOW"

calculate_confidence(max_prob, pattern_strength, history_length) ==
    LET statistical_edge == max_prob - 500
        confidence_factors ==
            [statistical_edge |-> Min(PScale, statistical_edge * 4),
             pattern_strength |-> pattern_strength,
             data_quality |-> Min(PScale, (history_length * PScale) \div 100),
             model_agreement |-> model_agreement]
        \* weights 0.4, 0.2, 0.2, 0.2: a factor in 1/PScale times tenths
        confidence_score == confidence_factors.statistical_edge * 4
                            + confidence_factors.pattern_strength * 2
                            + confidence_factors.data_quality * 2
                            + confidence_factors.model_agreement * 2
    IN  [confidence_level |-> confidence_level_of(confidence_score),
         confidence_score |-> confidence_score,
         confidence_factors |-> confidence_factors]

\* _determine_bet_size: int(min + normalized_score * (max - min))
determine_bet_size(confidence_level, confidence_score) ==
    LET bet_config == bet_sizes[confidence_level]
    IN  IF confidence_level = "LOW" THEN 0
        ELSE IF confidence_level = "MEDIUM"
        THEN bet_config.min
             + ((confidence_score - 7000) * (bet_config.max - bet_config.min)) \div 2000
        ELSE bet_config.min
             + ((confidence_score - 9000) * (bet_config.max - bet_config.min)) \div 800

MaxProbs == {334, 458, 500, 600, 700, 750, 1000}
PatternStrengths == {0, 300, 700, 1000}
HistoryLengths == {0, 7, 50, 100, 1000}

\* steps 6 and 7 of generate_signal; calls holds this call and the one before
confidence_and_sizing ==
    /\ \E max_prob \in MaxProbs, pattern_strength \in PatternStrengths,
          history_length \in HistoryLengths :
           LET c == calculate_confidence(max_prob, pattern_strength, history_length)
               bet_size == determine_bet_size(c.confidence_level, c.confidence_score)
               this == [max_prob |-> max_prob, pattern_strength |-> pattern_strength,
                        history_length |-> history_length,
                        statistical_edge |-> c.confidence_factors.statistical_edge,
                        confidence_score |-> c.confidence_score,
                        confidence_level |-> c.confidence_level,
                        bet_size |-> bet_size]
           IN  sg' = [op |-> "_calculate_confidence",
                      calls |-> IF sg.op = "_calculate_confidence"
                                THEN <<sg.calls[Len(sg.calls)], this>>
                                ELSE <<this>>]
    /\ UNCHANGED notSgVars

-----------------------------------------------------------------------------
(* core/monte_carlo.py: MonteCarloEngine.  A shoe is a sequence of card      *)
(* point values 0..9, its first element being the next card (shoe.pop(0)).   *)
CardValues == 0..9

calculate_baccarat_score(cards) == SumSeq(cards) % 10

should_banker_draw(banker_score, player_third) ==
    IF banker_score <= 2 THEN TRUE
    ELSE IF banker_score = 3 THEN player_third # 8
    ELSE IF banker_score = 4 THEN player_third \in {2, 3, 4, 5, 6, 7}
    ELSE IF banker_score = 5 THEN player_third \in {4, 5, 6, 7}
    ELSE IF banker_score = 6 THEN player_third \in {6, 7}
    ELSE FALSE

\* lines 180-194: the winner and the returned dictionary, with the shoe as the
\* pops left it
hand_result(banker_cards, player_cards, shoe) ==
    LET banker_score == calculate_baccarat_score(banker_cards)
        player_score == calculate_baccarat_score(player_cards)
    IN  [raised |-> "none",
         winner |-> IF banker_score > player_score THEN "B"
                    ELSE IF player_score > banker_score THEN "P" ELSE "T",
         banker_score |-> banker_score, player_score |-> player_score,
         banker_cards |-> banker_cards, player_cards |-> player_cards,
         shoe |-> shoe]

\* shoe.pop(0) on an empty list
pop_from_empty(shoe) == [raised |-> "IndexError", shoe |-> shoe]

\* a guard that lets a hand start when the four cards of the deal are there
short_of_the_deal(shoe) == Len(shoe) < 4

\* line 154: if len(shoe) < 6
too_few_cards(shoe) == Len(shoe) < 6

\* _simulate_single_hand
simulate_single_hand(shoe) ==
    IF too_few_cards(shoe)
    THEN [raised |-> "none", winner |-> "B", banker_score |-> 0, player_score |-> 0,
          shoe |-> shoe]
    ELSE
    LET banker_cards == <<shoe[1], shoe[2]>>
        player_cards == <<shoe[3], shoe[4]>>
        after_deal == SubSeq(shoe, 5, Len(shoe))
        banker_score == calculate_baccarat_score(banker_cards)
        player_score == calculate_baccarat_score(player_cards)
    IN  IF player_score <= 5
        THEN IF after_deal = <<>> THEN pop_from_empty(after_deal)
             ELSE LET player_third == Head(after_deal)
                      after_player == Tail(after_deal)
                      player_three == Append(player_cards, player_third)
                  IN  IF should_banker_draw(banker_score, player_third)
                      THEN IF after_player = <<>> THEN pop_from_empty(after_player)
                           ELSE hand_result(Append(banker_cards, Head(after_player)),
                                            player_three, Tail(after_player))
                      ELSE hand_result(banker_cards, player_three, after_player)
        ELSE IF banker_score <= 5
        THEN IF after_deal = <<>> THEN pop_from_empty(after_deal)
             ELSE hand_result(Append(banker_cards, Head(after_deal)), player_cards,
                              Tail(after_deal))
        ELSE hand_result(banker_cards, player_cards, after_deal)

\* the six cards at the top of the shoe: <<banker, banker, player, player,
\* fifth, sixth>>
SecondCards == {0, 5}
SixCardTops ==
    {<<b1, b2, p1, p2, c5, c6>> :
        b1 \in CardValues, b2 \in SecondCards, p1 \in CardValues, p2 \in SecondCards,
        c5 \in CardValues, c6 \in CardValues}

\* the call on the shoe that was set up
simulate_single_hand_call ==
    /\ mc.op = "shoe"
    /\ mc' = [op |-> "_simulate_single_hand", shoe |-> mc.shoe,
              hand |-> simulate_single_hand(mc.shoe)]
    /\ UNCHANGED notMcVars

-----------------------------------------------------------------------------
(* _run_batch_simulations on one worker.  remaining_cards maps a rank to its *)
(* count; random.shuffle is the choice of one arrangement of the shoe.       *)
card_values == [A |-> 1, Eight |-> 8, K |-> 0]
Ranks == {"A", "Eight", "K"}

RemainingChoices ==
    { [A |-> -1, Eight |-> 0, K |-> 0],
      [A |-> 3, Eight |-> 0, K |-> 2],
      [A |-> 2, Eight |-> 2, K |-> 2],
      [A |-> 3, Eight |-> 1, K |-> 3],
      [A |-> 6, Eight |-> 0, K |-> 6] }

\* [value] * count is the empty list for a count below 1
CardCount(remaining_cards, rank) == Max(0, remaining_cards[rank])
ShoeSize(remaining_cards) ==
    CardCount(remaining_cards, "A") + CardCount(remaining_cards, "Eight")
    + CardCount(remaining_cards, "K")

\* _create_shoe_from_remaining followed by random.shuffle: every arrangement
\* of the remaining cards
ShuffledShoes(remaining_cards) ==
    {s \in SeqsOfLen({card_values[r] : r \in {q \in Ranks : CardCount(remaining_cards, q) > 0}},
                     ShoeSize(remaining_cards)) :
        \A r \in Ranks :
            Cardinality({i \in 1..Len(s) : s[i] = card_values[r]})
                = CardCount(remaining_cards, r)}

HandCounts == 1..MaxHands
BatchSizes == 0..MaxBatch

\* the call: batch_results = []
run_batch_simulations ==
    /\ mc.op = "__init__"
    /\ \E remaining_cards \in RemainingChoices, num_hands \in HandCounts,
          batch_size \in BatchSizes :
           mc' = [op |-> "_run_batch_simulations", remaining_cards |-> remaining_cards,
                  num_hands |-> num_hands, batch_size |-> batch_size,
                  batch_results |-> <<>>, in_shoe |-> FALSE, shoe |-> <<>>,
                  hands |-> <<>>, before |-> <<>>, raised |-> "none",
                  returned |-> FALSE]
    /\ UNCHANGED notMcVars

\* one pass of the outer loop begins: the shoe is created and shuffled
batch_new_shoe ==
    /\ mc.op = "_run_batch_simulations" /\ mc.raised = "none" /\ ~mc.returned
    /\ ~mc.in_shoe
    /\ Len(mc.batch_results) < mc.batch_size
    /\ \E shoe \in ShuffledShoes(mc.remaining_cards) :
           mc' = [mc EXCEPT !.in_shoe = TRUE, !.shoe = shoe, !.hands = <<>>,
                            !.before = <<>>]
    /\ UNCHANGED notMcVars

\* one pass of the inner loop: a hand is simulated and recorded (the winner
\* is what the tallies are counted from); an exception leaves the batch
batch_simulate_hand ==
    /\ mc.op = "_run_batch_simulations" /\ mc.raised = "none" /\ ~mc.returned
    /\ mc.in_shoe
    /\ Len(mc.hands) < mc.num_hands
    /\ LET simulated == simulate_single_hand(mc.shoe)
       IN  mc' = IF simulated.raised # "none"
                 THEN [mc EXCEPT !.raised = simulated.raised]
                 ELSE [mc EXCEPT !.shoe = simulated.shoe,
                                 !.hands = Append(@, simulated.winner),
                                 !.before = mc.shoe]
    /\ UNCHANGED notMcVars

Tally(hands) ==
    <<Cardinality({i \in 1..Len(hands) : hands[i] = "B"}),
      Cardinality({i \in 1..Len(hands) : hands[i] = "P"}),
      Cardinality({i \in 1..Len(hands) : hands[i] = "T"})>>

\* the inner loop is over: batch_results.append(simulation_result)
batch_end_shoe ==
    /\ mc.op = "_run_batch_simulations" /\ mc.raised = "none" /\ ~mc.returned
    /\ mc.in_shoe
    /\ Len(mc.hands) = mc.num_hands
    /\ mc' = [mc EXCEPT !.batch_results = Append(@, [hands |-> mc.hands,
                                                      tally |-> Tally(mc.hands)]),
                        !.in_shoe = FALSE, !.shoe = <<>>, !.hands = <<>>,
                        !.before = <<>>]
    /\ UNCHANGED notMcVars

\* return batch_results
batch_return ==
    /\ mc.op = "_run_batch_simulations" /\ mc.raised = "none" /\ ~mc.returned
    /\ ~mc.in_shoe
    /\ Len(mc.batch_results) = mc.batch_size
    /\ mc' = [mc EXCEPT !.returned = TRUE]
    /\ UNCHANGED notMcVars

-----------------------------------------------------------------------------
(* _run_simulations: num_cores workers, each running a batch of              *)
(* num_simulations // num_cores shoes in a process of its own; the futures   *)
(* are read in the order of submission.  A simulated shoe is taken here by   *)
(* its tallies.                                                              *)
SimulationCounts == 0..MaxSimulations
CoreCounts == 1..MaxCores
ShoeTallies == {<<1, 0, 0>>, <<0, 1, 0>>}

run_simulations ==
    /\ mc.op = "__init__"
    /\ \E num_simulations \in SimulationCounts, num_cores \in CoreCounts :
           mc' = [op |-> "_run_simulations", num_simulations |-> num_simulations,
                  num_cores |-> num_cores,
                  simulations_per_core |-> num_simulations \div num_cores,
                  batches |-> [w \in 1..num_cores |-> <<>>],
                  finished |-> <<>>, merged |-> FALSE, all_results |-> <<>>,
                  analysis |-> analyze_tallies(<<0, 0, 0>>)]
    /\ UNCHANGED notMcVars

Finished(w) == \E i \in 1..Len(mc.finished) : mc.finished[i] = w

\* a worker simulates one more shoe of its batch
worker_simulates ==
    /\ mc.op = "_run_simulations" /\ ~mc.merged
    /\ \E w \in 1..mc.num_cores, tally \in ShoeTallies :
           /\ ~Finished(w)
           /\ Len(mc.batches[w]) < mc.simulations_per_core
           /\ mc' = [mc EXCEPT !.batches[w] = Append(@, tally)]
    /\ UNCHANGED notMcVars

\* a worker returns its batch: its future is done
worker_finishes ==
    /\ mc.op = "_run_simulations" /\ ~mc.merged
    /\ \E w \in 1..mc.num_cores :
           /\ ~Finished(w)
           /\ Len(mc.batches[w]) = mc.simulations_per_core
           /\ mc' = [mc EXCEPT !.finished = Append(@, w)]
    /\ UNCHANGED notMcVars

\* the batches of the workers listed in `order`, one after the other
RECURSIVE Extend(_, _)
Extend(batches, order) ==
    IF order = <<>> THEN <<>> ELSE batches[Head(order)] \o Extend(batches, Tail(order))

RECURSIVE SumTallies(_)
SumTallies(results) ==
    IF results = <<>> THEN <<0, 0, 0>>
    ELSE LET rest == SumTallies(Tail(results))
         IN  <<Head(results)[1] + rest[1], Head(results)[2] + rest[2],
               Head(results)[3] + rest[3]>>

\* lines 104-108 once every future is done, then _analyze_simulation_results
\* (simulate_shoe, line 43)
collect_results ==
    /\ mc.op = "_run_simulations" /\ ~mc.merged
    /\ Len(mc.finished) = mc.num_cores
    /\ LET all_results == Extend(mc.batches, [w \in 1..mc.num_cores |-> w])
       IN  mc' = [mc EXCEPT !.merged = TRUE, !.all_results = all_results,
                            !.analysis = analyze_tallies(SumTallies(all_results))]
    /\ UNCHANGED notMcVars

-----------------------------------------------------------------------------
(* core/prediction_engine.py: MLRandomForestEngine and PredictionEngine.     *)
(* pe.model is None until a model file is loaded or train_model has built a  *)
(* classifier; pe.scaler_fitted tells whether the StandardScaler was fitted  *)
(* (only train_model fits it, a loaded model comes with a fresh scaler).     *)
(* What the fitted forest answers is not computed: predict_proba is a choice *)
(* over the classes and a confidence in thousandths.                         *)
minimum_history == 60
training_offset == 60

\* MLRandomForestEngine.__init__ and _load_or_train_model
MLRandomForestEngineInit(model_file_exists) ==
    pe = [op |-> "__init__",
          model |-> IF model_file_exists THEN "rf_model.pkl" ELSE None,
          scaler_fitted |-> FALSE]

\* the histories handed to the engine: a repeated pattern cut at a length
HistoryPatterns == {<<"B", "P">>, <<"Dragon">>, <<"Tiger", "Dragon", "Tie">>, <<"Tie", "Tie", "B">>}
Repeat(pattern, n) == [i \in 1..n |-> pattern[((i - 1) % Len(pattern)) + 1]]
Histories == {Repeat(pattern, n) : pattern \in HistoryPatterns, n \in 0..MaxHistory}

\* len(historical_data) of the train_model calls
TrainingSizes == {0, 60, 61, 62, 100}

\* the guard of MLRandomForestEngine.predict
shorter_than_widest_window(hist, model) == Len(hist) < 50 \/ model = None
insufficient(hist, model) == Len(hist) < 60 \/ model = None

\* what a fitted classifier can answer: a class label, confidence *
\* relative_confidence in thousandths (nan when the forest knows one class)
Classes == {"Dragon", "Tiger", "Tie", "B"}
ClassifierAnswers ==
    {[prediction |-> c, confidence |-> k, is_nan |-> FALSE] : c \in Classes, k \in {0, 412, 1000}}
    \cup {[prediction |-> c, confidence |-> 0, is_nan |-> TRUE] : c \in Classes}

\* MLRandomForestEngine.predict: the set of outcomes of one call
predict(hist, model, scaler_fitted) ==
    IF insufficient(hist, model)
    THEN {[raised |-> "none", prediction |-> "NONE", confidence |-> 0, is_nan |-> FALSE,
           probabilities |-> "empty"]}
    ELSE IF ~scaler_fitted
    THEN {[raised |-> "NotFittedError", prediction |-> None, confidence |-> 0, is_nan |-> FALSE,
           probabilities |-> None]}
    ELSE {[raised |-> "none", prediction |-> a.prediction, confidence |-> a.confidence,
           is_nan |-> a.is_nan, probabilities |-> "prob_dict"] : a \in ClassifierAnswers}

\* signal_map.get(prediction, 'NONE')
signal_map(prediction) ==
    CASE prediction = "Dragon" -> "B"
      [] prediction = "Tiger" -> "P"
      [] prediction = "Tie" -> "E"
      [] OTHER -> "NONE"

\* PredictionEngine.analyze
analyze ==
    /\ \E hist \in Histories :
         \E p \in predict(hist, pe.model, pe.scaler_fitted) :
           pe' = [op |-> "analyze", model |-> pe.model, scaler_fitted |-> pe.scaler_fitted,
                  history |-> hist, raised |-> p.raised,
                  signal |-> IF p.raised = "none" THEN signal_map(p.prediction) ELSE None,
                  confidence |-> p.confidence, is_nan |-> p.is_nan,
                  algorithm |-> IF p.raised = "none" THEN "ml_random_forest" ELSE None,
                  probabilities |-> p.probabilities]
    /\ UNCHANGED notPeVars

\* MLRandomForestEngine.train_model on n rounds of data: one feature row per
\* index 60..n-1; np.vstack of no rows and a split of one row raise before the
\* classifier is built
train_model ==
    /\ \E n \in TrainingSizes :
         LET rows == IF n > training_offset THEN n - training_offset ELSE 0
         IN  pe' = IF rows < 2
                   THEN [op |-> "train_model", model |-> pe.model,
                         scaler_fitted |-> pe.scaler_fitted, raised |-> "ValueError"]
                   ELSE [op |-> "train_model", model |-> "RandomForestClassifier",
                         scaler_fitted |-> TRUE, raised |-> "none"]
    /\ UNCHANGED notPeVars

-----------------------------------------------------------------------------
(* bot_avanzado_completo.py: AdvancedBaccaratBot, and the DataAggregator of  *)
(* core/data_acquisition.py.  start() creates three asyncio tasks on one     *)
(* event loop: data collection, the processing loop and the monitoring loop. *)
(* A task runs until it awaits something that suspends it; bot.pc is the     *)
(* position of the processing task, the other two tasks run one step between *)
(* two of their sleeps.  bot.last names the task that ran last, bot.bets     *)
(* lists the bets that passed _confirm_bet.                                  *)
max_buffer_size == 1000
recent_data_count == 10
recent_signals_count == 5
bet_confirmation_delay == 3

rmButRet == <<initial_bankroll, base_unit, current_bankroll, bankroll_state,
              session_results, daily_results, results_history, session_active,
              emergency_stop, cooling_down>>

AdvancedBaccaratBotInit ==
    bot = [pc |-> "initialized", running |-> FALSE, last |-> "none",
           data_buffer |-> <<>>, recent_data |-> <<>>, item |-> 0,
           active |-> <<>>, sig |-> 0, bet_size |-> 0,
           hands_played |-> 0, total_profit |-> 0, iterations |-> 0, bets |-> <<>>]

\* a scheduler that could suspend the processing task between any two statements
preempted_anywhere(pc) == TRUE

\* the positions at which the processing task is suspended and the event loop
\* runs another task: asyncio.sleep(2), asyncio.sleep(bet_confirmation_delay),
\* and the finished task
yields(pc) == pc \in {"sleep", "confirm", "done"}

\* AdvancedBaccaratBot.start: the risk session is started and the tasks created
start ==
    /\ bot.pc = "initialized"
    /\ session_active' = TRUE
    /\ session_results' = <<>>
    /\ bankroll_state' = [bankroll_state EXCEPT !.session_balance = current_bankroll]
    /\ ret' = Return("start_session", "none", 0, FALSE)
    /\ bot' = [bot EXCEPT !.pc = "sleep", !.running = TRUE, !.last = "start"]
    /\ UNCHANGED <<initial_bankroll, base_unit, current_bankroll, daily_results,
                   results_history, emergency_stop, cooling_down>>
    /\ UNCHANGED <<smVars, coreVars>>

\* DataAggregator._process_new_data
process_new_data(data_buffer, data) ==
    LET appended == Append(data_buffer, data)
    IN  IF Len(appended) > max_buffer_size THEN Tail(appended) ELSE appended

\* DataAggregator.get_recent_data(count)
get_recent_data(data_buffer, count) == LastN(data_buffer, count)

\* the data task: _collect_from_source receives one GameData; the rounds are
\* numbered in arrival order, "X" is a result _validate_game_data rejects
data_arrives ==
    /\ bot.pc # "initialized"
    /\ yields(bot.pc)
    /\ Len(bot.data_buffer) < MaxBotData
    /\ \E result \in {"B", "P", "X"} :
         bot' = [bot EXCEPT !.data_buffer = process_new_data(@, [round |-> Len(@) + 1,
                                                                 result |-> result]),
                            !.last = "data"]
    /\ UNCHANGED <<rmVars, smVars, coreVars>>

\* the monitoring task: _monitoring_loop wakes and _generate_status_report
\* reads the bankroll through get_risk_assessment
monitoring_report ==
    /\ bot.running
    /\ yields(bot.pc)
    /\ ret' = Return("get_risk_assessment", "none", risk_assessment.current_bankroll,
                     risk_assessment.emergency_stop_active)
    /\ bot' = [bot EXCEPT !.last = "monitoring"]
    /\ UNCHANGED <<rmButRet, smVars, coreVars>>

\* a Signal reaches SignalManager._process_signal while the processing task is
\* suspended
signal_arrives ==
    /\ bot.pc # "initialized"
    /\ yields(bot.pc)
    /\ Len(signal_history) < MaxBotSignals
    /\ \E confidence \in {"HIGH", "LOW"}, win_probability \in {600, 1000} :
         process_signal_of(new_signal(Len(signal_history) + 1, "B", 1, confidence,
                                      win_probability))
    /\ bot' = [bot EXCEPT !.last = "signal"]
    /\ UNCHANGED <<rmVars, coreVars>>

\* _main_processing_loop from its sleep to the list of recent data; stop() when
\* should_continue_session answers False
loop_iteration ==
    /\ bot.pc = "sleep"
    /\ bot.running
    /\ bot.iterations < MaxIterations
    /\ \E timed_out \in BOOLEAN :
         IF should_continue_value(timed_out)
         THEN /\ ret' = Return("should_continue_session", "none", 0, TRUE)
              /\ bot' = [bot EXCEPT !.recent_data = get_recent_data(bot.data_buffer,
                                                                    recent_data_count),
                                    !.item = 1, !.pc = "item", !.last = "processing"]
              /\ UNCHANGED rmButRet
         ELSE /\ session_active' = FALSE
              /\ \E new_day \in BOOLEAN : update_session_statistics(new_day)
              /\ ret' = Return("end_session", "none", SumSeq(session_results), FALSE)
              /\ bot' = [bot EXCEPT !.running = FALSE, !.pc = "done", !.last = "processing"]
              /\ UNCHANGED <<initial_bankroll, base_unit, current_bankroll, session_results,
                             results_history, emergency_stop, cooling_down>>
    /\ UNCHANGED <<smVars, coreVars>>

\* _validate_game_data (the scores of the modelled data are in range)
validate_game_data(game_data) == game_data.result \in {"B", "P", "T"}

\* one pass of `for game_data in recent_data`: _process_game_data up to its loop
\* over the active signals; after the last datum, asyncio.sleep(2)
process_game_data ==
    /\ bot.pc = "item"
    /\ IF bot.item > Len(bot.recent_data)
       THEN /\ bot' = [bot EXCEPT !.pc = "sleep", !.iterations = @ + 1, !.last = "processing"]
            /\ UNCHANGED smVars
       ELSE LET game_data == bot.recent_data[bot.item]
            IN  IF ~validate_game_data(game_data)
                THEN /\ bot' = [bot EXCEPT !.item = @ + 1, !.last = "processing"]
                     /\ UNCHANGED smVars
                ELSE /\ process_new_game_data_of(game_data)
                     /\ bot' = [bot EXCEPT !.hands_played = @ + 1,
                                           !.active = LastN(active_signals', recent_signals_count),
                                           !.sig = 1, !.pc = "signal", !.last = "processing"]
    /\ UNCHANGED <<rmVars, coreVars>>

\* one pass of `for signal_data in active_signals`: _execute_signal up to the
\* sleep of _confirm_bet; an exception of the sizing is logged and the signal
\* dropped
execute_signal ==
    /\ bot.pc = "signal"
    /\ IF bot.sig > Len(bot.active)
       THEN /\ bot' = [bot EXCEPT !.item = @ + 1, !.pc = "item", !.last = "processing"]
            /\ UNCHANGED ret
       ELSE LET signal_data == bot.active[bot.sig]
            IN  IF signal_data.confidence \notin {"HIGH", "MEDIUM"}
                THEN /\ bot' = [bot EXCEPT !.sig = @ + 1, !.last = "processing"]
                     /\ UNCHANGED ret
                ELSE LET r == bet_sizing_recommendation(signal_data.win_probability,
                                                        signal_data.confidence)
                     IN  /\ ret' = Return("get_bet_sizing_recommendation", r.raised, r.value, FALSE)
                         /\ bot' = IF r.raised # "none" \/ r.value <= 0
                                   THEN [bot EXCEPT !.sig = @ + 1, !.last = "processing"]
                                   ELSE [bot EXCEPT !.bet_size = r.value,
                                                    !.pc = IF bet_confirmation_delay > 0
                                                           THEN "confirm" ELSE "pending",
                                                    !.last = "processing"]
    /\ UNCHANGED <<rmButRet, smVars, coreVars>>

\* _confirm_bet after its sleep; expired: the signal is older than 30 seconds
confirm_bet ==
    /\ bot.pc = "confirm"
    /\ \E expired \in BOOLEAN :
         bot' = IF expired
                THEN [bot EXCEPT !.sig = @ + 1, !.pc = "signal", !.last = "processing"]
                ELSE [bot EXCEPT !.pc = "pending", !.last = "processing"]
    /\ UNCHANGED <<rmVars, smVars, coreVars>>

\* record_bet_result has read self.current_bankroll (the load of `+=`) and has
\* not stored yet
record_bet_result_reads ==
    /\ bot.pc \in {"pending", "result"}
    /\ bot' = [bot EXCEPT !.pc = IF bot.pc = "pending" THEN "pending_mid" ELSE "result_mid",
                          !.last = "processing"]
    /\ UNCHANGED <<rmVars, smVars, coreVars>>

\* _execute_signal: record_bet_result(bet_size, 0, 'pending') stores
record_pending ==
    /\ bot.pc = "pending_mid"
    /\ record_bet_result(bot.bet_size, 0, "pending")
    /\ bot' = [bot EXCEPT !.pc = "result", !.last = "processing"]
    /\ UNCHANGED <<smVars, coreVars>>

\* the payout of _wait_for_result on a stake
bet_result(recommended_bet, actual_result, stake) ==
    IF recommended_bet = actual_result
    THEN CASE recommended_bet = "T" -> stake * 8
           [] recommended_bet = "B" -> MulFrac(stake, 95, 100)
           [] OTHER -> stake
    ELSE 0 - stake

\* _wait_for_result: record_bet_result(bet_size, result, actual_result) stores,
\* then the rest of _execute_signal
wait_for_result ==
    /\ bot.pc = "result_mid"
    /\ LET signal_data == bot.active[bot.sig]
           game_data == bot.recent_data[bot.item]
           stake == signal_data.bet_size * base_unit
           result == bet_result(signal_data.recommended_bet, game_data.result, stake)
       IN  /\ record_bet_result(stake, result, game_data.result)
           /\ bot' = [bot EXCEPT !.total_profit = @ + result,
                                 !.bets = Append(@, [signal |-> signal_data.timestamp,
                                                     round |-> game_data.round,
                                                     sized |-> bot.bet_size,
                                                     staked |-> stake,
                                                     result |-> result]),
                                 !.sig = @ + 1, !.pc = "signal", !.last = "processing"]
    /\ UNCHANGED <<smVars, coreVars>>

-----------------------------------------------------------------------------
(* core/decision_engine.py: DecisionEngine.  Money is in cents and a
   confidence in thousandths; next to the two accumulators the binary64
   values the code holds in current_bankroll and stats['profit'] are kept. *)

\* the Settings the engine imports: the values written by the setup script,
\* and a table with a base bet of 400.00 that is also the largest bet
default_settings ==
    [min_data_points |-> 10, base_bet |-> 100, max_bet |-> 10000,
     stop_loss |-> 100000, stop_win |-> 50000]
high_stakes_settings == [default_settings EXCEPT !.base_bet = 40000, !.max_bet = 40000]
SettingsChoices == {default_settings, high_stakes_settings}

decision_initial_bankroll == 100000
min_confidence == 400
min_bet_confidence == 500

Float_0 == Float(FALSE, <<>>)
\* the literal 0.7 = 0xB3333333333330 * 2^-56
Float_0_7 == Float(FALSE, Trim(FromHex(<<11, 3, 3, 3, 3, 3, 3, 3, 3, 3, 3, 3, 3, 0>>)))

\* the double base_bet * confidence of an amount of the model: every amount is
\* a whole number of units or a half, but for 0.70
amount_binary64(amount) ==
    IF amount = 0 THEN Float_0
    ELSE IF amount = 70 THEN Float_0_7
    ELSE IF amount = 50 THEN Float_0_5
    ELSE FloatOfNat(amount \div 100)

no_decision == [should_bet |-> FALSE, bet_type |-> "", amount |-> 0, confidence |-> 0,
                reason |-> "Condiciones no cumplidas"]

no_question == [signal |-> "NONE", confidence |-> 0, history |-> 0, betting_open |-> FALSE]

DecisionEngineInit(settings) ==
    de = [op |-> "__init__", settings |-> settings,
          current_bankroll |-> decision_initial_bankroll,
          consecutive_losses |-> 0, total_bets |-> 0, wins |-> 0,
          current_streak |-> 0, last_bet_amount |-> 0,
          stats |-> [total_bets |-> 0, wins |-> 0, losses |-> 0, profit |-> 0,
                     win_streak |-> 0, loss_streak |-> 0],
          asked |-> no_question, decision |-> no_decision,
          binary64_bankroll |-> FloatOfNat(decision_initial_bankroll \div 100),
          binary64_profit |-> Float_0]

should_consider_bet_without_stop_win(prediction, game_state) ==
    /\ ~(prediction.signal = "NONE" \/ prediction.confidence < min_confidence)
    /\ ~(game_state.history < de.settings.min_data_points)
    /\ game_state.betting_open
    /\ ~(de.stats.profit <= -de.settings.stop_loss)

should_consider_bet(prediction, game_state) ==
    /\ ~(prediction.signal = "NONE" \/ prediction.confidence < min_confidence)
    /\ ~(game_state.history < de.settings.min_data_points)
    /\ game_state.betting_open
    /\ ~(de.stats.profit <= -de.settings.stop_loss)
    /\ ~(de.stats.profit >= de.settings.stop_win)

calculate_bet_amount(confidence) ==
    IF confidence < min_bet_confidence THEN 0
    ELSE Min(MulFrac(de.settings.base_bet, confidence, PScale), de.settings.max_bet)

within_max_bet(amount) == amount <= de.settings.max_bet

validate_bet_amount(amount) ==
    amount <= de.current_bankroll /\ amount <= de.settings.max_bet

\* the questions put to make_decision: a confident signal on an open table
\* with enough history at every confidence, and one failing each other test
confident_question == [signal |-> "B", confidence |-> 1000, history |-> 20, betting_open |-> TRUE]
Questions ==
    {[confident_question EXCEPT !.confidence = c] : c \in {300, 450, 500, 700, 1000}}
    \cup {[confident_question EXCEPT !.signal = "NONE"],
          [confident_question EXCEPT !.history = 5],
          [confident_question EXCEPT !.betting_open = FALSE]}

make_decision ==
    /\ \E question \in Questions :
          LET prediction == [signal |-> question.signal, confidence |-> question.confidence]
              game_state == [history |-> question.history,
                             betting_open |-> question.betting_open]
              bet_amount == calculate_bet_amount(prediction.confidence)
          IN  de' = [de EXCEPT
                  !.op = "make_decision",
                  !.asked = question,
                  !.decision =
                      IF ~should_consider_bet(prediction, game_state) THEN no_decision
                      ELSE IF ~validate_bet_amount(bet_amount)
                      THEN [no_decision EXCEPT !.reason = "Bankroll insuficiente"]
                      ELSE [should_bet |-> TRUE, bet_type |-> prediction.signal,
                            amount |-> bet_amount, confidence |-> prediction.confidence,
                            reason |-> "Senal"]]
    /\ UNCHANGED notDeVars

\* record_result(bet_decision, won, payout) for the decision make_decision has
\* just returned, as the main loop calls it; a winning bet is paid twice its amount
record_result ==
    /\ de.op = "make_decision"
    /\ de.decision.should_bet
    /\ de.total_bets < MaxDecisionBets
    /\ \E won \in BOOLEAN :
          LET amount == de.decision.amount
              payout == IF won THEN 2 * amount ELSE 0
              profit == IF won THEN payout - amount ELSE -amount
              amount64 == amount_binary64(amount)
              payout64 == FloatAdd(amount64, amount64)
              profit64 == IF won THEN FloatSub(payout64, amount64) ELSE FloatNeg(amount64)
              streak == IF won THEN Max(de.current_streak, 0) + 1
                        ELSE Min(de.current_streak, 0) - 1
          IN  de' = [de EXCEPT
                  !.op = "record_result",
                  !.total_bets = @ + 1,
                  !.last_bet_amount = amount,
                  !.wins = IF won THEN @ + 1 ELSE @,
                  !.consecutive_losses = IF won THEN 0 ELSE @ + 1,
                  !.current_streak = streak,
                  !.current_bankroll = @ + profit,
                  !.binary64_bankroll = FloatAdd(@, profit64),
                  !.binary64_profit = FloatAdd(@, profit64),
                  !.stats = [total_bets |-> de.total_bets + 1,
                             wins |-> IF won THEN de.wins + 1 ELSE de.wins,
                             losses |-> de.total_bets + 1
                                        - (IF won THEN de.wins + 1 ELSE de.wins),
                             profit |-> @.profit + profit,
                             win_streak |-> IF won THEN Max(@.win_streak, streak)
                                            ELSE @.win_streak,
                             loss_streak |-> IF won THEN @.loss_streak
                                             ELSE Min(@.loss_streak, streak)]]
    /\ UNCHANGED notDeVars

-----------------------------------------------------------------------------
(* Initial states of the components that a specification leaves idle *)
RiskIdle == RiskManagerInit(<<10000, 1000>>)
KellyIdle == KellyBankrollManagerInit(10000)
Binary64Idle == Binary64Init(FloatOfNat(1000), FloatOfNat(10))
SignalIdle == SignalManagerInit
StagesIdle == sg = [op |-> "__init__"]
MonteCarloIdle == mc = [op |-> "__init__"]
PredictionIdle == MLRandomForestEngineInit(FALSE)
DecisionIdle == DecisionEngineInit(default_settings)
BotIdle == AdvancedBaccaratBotInit
LaterIdle ==
    /\ PredictionIdle
    /\ DecisionIdle
    /\ BotIdle

-----------------------------------------------------------------------------
(* The RiskManager driven through its public operations *)
InitRisk ==
    /\ LaterIdle
    /\ \E cfg \in RiskConfigs : RiskManagerInit(cfg)
    /\ KellyIdle
    /\ Binary64Idle
    /\ SignalIdle
    /\ StagesIdle
    /\ MonteCarloIdle

NextRisk ==
    \/ start_session
    \/ end_session
    \/ should_continue_session
    \/ calculate_bet_size
    \/ record_fixed
    \/ get_risk_assessment
    \/ get_bet_sizing_recommendation
    \/ kelly_fraction_call

SpecRisk == InitRisk /\ [][NextRisk]_vars

(* The RiskManager when every recorded result is the win or the loss of the *)
(* bet that the preceding calculate_bet_size returned *)
InitSized ==
    /\ LaterIdle
    /\ \E cfg \in SizedConfigs : RiskManagerInit(cfg)
    /\ KellyIdle
    /\ Binary64Idle
    /\ SignalIdle
    /\ StagesIdle
    /\ MonteCarloIdle

NextSized ==
    \/ start_session
    \/ calculate_bet_size
    \/ record_sized

SpecSized == InitSized /\ [][NextSized]_vars

(* The KellyBankrollManager driven through its public operations *)
InitKelly ==
    /\ LaterIdle
    /\ \E initial \in KellyBankrolls : KellyBankrollManagerInit(initial)
    /\ RiskIdle
    /\ Binary64Idle
    /\ SignalIdle
    /\ StagesIdle
    /\ MonteCarloIdle

NextKelly ==
    \/ update_bankroll
    \/ calculate_kelly_bet

SpecKelly == InitKelly /\ [][NextKelly]_vars

(* Losses of a fixed stake recorded on both managers, in binary64 *)
InitBinary64 ==
    /\ LaterIdle
    /\ \E balance \in Binary64Balances, stake \in Binary64Stakes : Binary64Init(balance, stake)
    /\ RiskIdle
    /\ KellyIdle
    /\ SignalIdle
    /\ StagesIdle
    /\ MonteCarloIdle

NextBinary64 ==
    \/ record_loss_binary64
    \/ update_bankroll_loss_binary64

SpecBinary64 == InitBinary64 /\ [][NextBinary64]_vars

(* The SignalManager fed with an outcome-event stream *)
InitSignal ==
    /\ LaterIdle
    /\ SignalManagerInit
    /\ RiskIdle
    /\ KellyIdle
    /\ Binary64Idle
    /\ StagesIdle
    /\ MonteCarloIdle

NextSignal == process_new_game_data

SpecSignal == InitSignal /\ [][NextSignal]_vars

(* The RiskManager and the SignalManager of one bot: bets are recorded on   *)
(* the one while outcome events are fed to the other                        *)
NextOrchestrator ==
    \/ start_session
    \/ record_fixed
    \/ (events < MaxOrchestratorEvents /\ process_new_game_data)

SpecOrchestrator == InitSignal /\ [][NextOrchestrator]_vars

(* PatternAnalyzer.detect_streaks on every result list up to MaxResults *)
InitStages ==
    /\ LaterIdle
    /\ StagesIdle
    /\ MonteCarloIdle
    /\ RiskIdle
    /\ KellyIdle
    /\ Binary64Idle
    /\ SignalIdle

NextStreaks == detect_streaks_call

SpecStreaks == InitStages /\ [][NextStreaks]_vars

(* The BayesianUpdater called directly and through _apply_bayesian_update *)
NextBayesian ==
    \/ update_probabilities_call
    \/ apply_bayesian_update_call

SpecBayesian == InitStages /\ [][NextBayesian]_vars

(* _combine_predictions on the outputs of the three predictors *)
NextFusion == combine_predictions_call

SpecFusion == InitStages /\ [][NextFusion]_vars

(* _calculate_confidence and _determine_bet_size, call after call *)
NextConfidence == confidence_and_sizing

SpecConfidence == InitStages /\ [][NextConfidence]_vars

(* One simulated hand on every six-card top of the shoe *)
InitHand ==
    /\ LaterIdle
    /\ \E shoe \in SixCardTops : mc = [op |-> "shoe", shoe |-> shoe]
    /\ StagesIdle
    /\ RiskIdle
    /\ KellyIdle
    /\ Binary64Idle
    /\ SignalIdle

NextHand == simulate_single_hand_call

SpecHand == InitHand /\ [][NextHand]_vars

(* One worker batch, hand by hand *)
NextBatch ==
    \/ run_batch_simulations
    \/ batch_new_shoe
    \/ batch_simulate_hand
    \/ batch_end_shoe
    \/ batch_return

SpecBatch == InitStages /\ [][NextBatch]_vars

(* The worker pool of _run_simulations *)
NextWorkers ==
    \/ run_simulations
    \/ worker_simulates
    \/ worker_finishes
    \/ collect_results

SpecWorkers == InitStages /\ [][NextWorkers]_vars

(* The SignalManager handed one Signal after another *)
NextSignalHistory == process_signal_call

SpecSignalHistory == InitSignal /\ [][NextSignalHistory]_vars

(* The three tasks of AdvancedBaccaratBot on one event loop *)
InitBot ==
    /\ AdvancedBaccaratBotInit
    /\ RiskIdle
    /\ SignalIdle
    /\ PredictionIdle
    /\ DecisionIdle
    /\ KellyIdle
    /\ Binary64Idle
    /\ StagesIdle
    /\ MonteCarloIdle

NextBot ==
    \/ start
    \/ data_arrives
    \/ monitoring_report
    \/ signal_arrives
    \/ loop_iteration
    \/ process_game_data
    \/ execute_signal
    \/ confirm_bet
    \/ record_bet_result_reads
    \/ record_pending
    \/ wait_for_result

SpecBot == InitBot /\ [][NextBot]_vars

-----------------------------------------------------------------------------
(* The PredictionEngine asked to analyze histories, before and after training *)
InitPrediction ==
    /\ \E model_file_exists \in BOOLEAN : MLRandomForestEngineInit(model_file_exists)
    /\ DecisionIdle
    /\ BotIdle
    /\ RiskIdle
    /\ KellyIdle
    /\ Binary64Idle
    /\ SignalIdle
    /\ StagesIdle
    /\ MonteCarloIdle

NextPrediction ==
    \/ analyze
    \/ train_model

SpecPrediction == InitPrediction /\ [][NextPrediction]_vars

-----------------------------------------------------------------------------
(* The DecisionEngine asked for decisions, each placed bet recorded once *)
InitDecision ==
    /\ \E settings \in SettingsChoices : DecisionEngineInit(settings)
    /\ PredictionIdle
    /\ BotIdle
    /\ RiskIdle
    /\ KellyIdle
    /\ Binary64Idle
    /\ SignalIdle
    /\ StagesIdle
    /\ MonteCarloIdle

NextDecision ==
    \/ make_decision
    \/ record_result

SpecDecision == InitDecision /\ [][NextDecision]_vars

-----------------------------------------------------------------------------
(* Claims about the RiskManager *)

\* C1: the RiskManager balance is never negative when every recorded loss is
\* the bet size returned by the preceding calculate_bet_size.
C1_BalanceNeverNegative == current_bankroll >= 0

\* C2: once the emergency stop is set it stays set, and every later
\* calculate_bet_size call returns 0, whatever operations happen in between.
C2_MonotonicStopped ==
    [][emergency_stop =>
          /\ emergency_stop'
          /\ (ret'.op = "calculate_bet_size" => ret'.raised = "none" /\ ret'.value = 0)]_vars

\* C2 witness: a calculate_bet_size call answered in a session that was started
\* again after the emergency stop.
C2_Witness ==
    /\ emergency_stop
    /\ session_active
    /\ session_results = <<>>
    /\ results_history # <<>>
    /\ ret.op = "calculate_bet_size"
    /\ ret.value = 0

\* C3: as soon as a record_bet_result leaves the drawdown from the peak at or
\* above 20% (also at exactly 20%), the emergency stop is set.
C3_InclusiveEmergencyStop ==
    (/\ ret.op = "record_bet_result"
     /\ (bankroll_state.peak_balance - current_bankroll) * 100 >= 20 * bankroll_state.peak_balance)
    => emergency_stop

\* C4: while the session loss is at or above the configured max session loss,
\* no calculate_bet_size call of that session returns a non-zero bet.
C4_SessionLossStopsSizing ==
    (/\ session_active
     /\ bankroll_state.session_balance - current_bankroll >= limits.max_session_loss
     /\ ret.op = "calculate_bet_size"
     /\ ret.raised = "none")
    => ret.value = 0

\* C6: calculate_kelly_fraction(win_probability = 0.5, odds = 1.0) returns the
\* value 0.
C6_NoEdgeNoBet ==
    (ret.op = "calculate_kelly_fraction" /\ ret.args = <<500, 100>>)
    => (ret.raised = "none" /\ ret.value = 0)

ReadOnlyOps == {"should_continue_session", "calculate_bet_size", "get_risk_assessment",
                "get_bet_sizing_recommendation"}
SessionOps == {"start_session", "end_session"}

\* C8 as stated: start_session, end_session, should_continue_session,
\* calculate_bet_size, get_risk_assessment and get_bet_sizing_recommendation
\* leave every BankrollState field unchanged.
C8_OnlyRecordMutates ==
    [][ret'.op \in (ReadOnlyOps \cup SessionOps) => bankroll_state' = bankroll_state]_vars

\* C8 amended: start_session and end_session set session_balance to the current
\* bankroll and change no other BankrollState field; the four read-only
\* operations change no field; so record_bet_result is the only operation that
\* changes a field other than session_balance.
C8_OnlyRecordMutatesButSessionBalance ==
    [][/\ ret'.op \in ReadOnlyOps => bankroll_state' = bankroll_state
       /\ ret'.op \in SessionOps =>
            bankroll_state' = [bankroll_state EXCEPT !.session_balance = current_bankroll]]_vars

\* C8 witness: a session was ended after results moved the balance, so that
\* session_balance was rewritten while peak and streaks kept their values.
C8_Witness ==
    /\ ret.op = "end_session"
    /\ bankroll_state.session_balance # initial_bankroll
    /\ bankroll_state.session_balance = current_bankroll
    /\ bankroll_state.peak_balance # current_bankroll
    /\ bankroll_state.losing_streak > 0

-----------------------------------------------------------------------------
(* Claims about the accounting and the KellyBankrollManager *)

\* C5: after N recorded losses of fixed size s from the initial balance B the
\* balance equals B - N*s exactly, for RiskManager.record_bet_result and for
\* KellyBankrollManager.update_bankroll.
C5_ExactLossAccounting ==
    /\ b64.rm_bankroll = FloatSub(b64.initial, FloatMulNat(b64.rm_losses, b64.stake))
    /\ b64.kbm_bankroll = FloatSub(b64.initial, FloatMulNat(b64.kbm_losses, b64.stake))

\* the highest bankroll seen so far, the initial bankroll included
KellyHighWater ==
    MaxOfSeq(<<kbm.initial_bankroll>>
             \o [i \in 1..Len(kbm.bet_history) |-> kbm.bet_history[i].bankroll])

KellyThrottle ==
    LET high == KellyHighWater
        lost == high - kbm.current_bankroll
    IN  IF lost * 100 > 20 * high THEN 10
        ELSE IF lost * 100 > 10 * high THEN 20
        ELSE 25

\* C7: after every update_bankroll the multiplier is 0.1 above 20% drawdown
\* from the highest bankroll seen, 0.2 above 10% and 0.25 otherwise, and the
\* next calculate_kelly_bet with a sufficient edge returns a bet sized with it.
C7_DrawdownThrottling ==
    /\ kbm.fractional_kelly = KellyThrottle
    /\ (kbm_ret.op = "calculate_kelly_bet" /\ kbm_ret.args = <<200, "Tie">>)
         => (/\ kbm_ret.raised = "none"
             /\ kbm_ret.should_bet
             /\ kbm_ret.bet_size > 0)

\* the first half of C7 alone: the multiplier follows the drawdown tiers
C7_MultiplierTiers == kbm.fractional_kelly = KellyThrottle

-----------------------------------------------------------------------------
(* Claims about the signal orchestration *)

C10_SignalCadence ==
    sm_ret.op = "process_new_game_data"
    => (sm_ret.ran_pipeline <=> events % signal_interval = 0)

\* C11: whenever the pipeline runs on a qualifying event, generate_signal
\* goes through its stages and returns an assembled Signal record, not None,
\* to the caller.
C11_PipelineReturnsSignal ==
    (sm_ret.op = "process_new_game_data" /\ sm_ret.ran_pipeline) => sm_ret.signal # None

-----------------------------------------------------------------------------
(* Claims about the stages of the pipeline *)

ThisCall == sg.calls[Len(sg.calls)]

\* C12: the tier is HIGH iff score >= 0.90, MEDIUM iff 0.70 <= score < 0.90
\* and LOW otherwise, a LOW signal has bet size 0, and two calls with the same
\* score give the same tier and the same bet size.
C12_TierAndLowSizing ==
    sg.op = "_calculate_confidence" =>
        LET this == ThisCall
            before == sg.calls[1]
        IN  /\ this.confidence_level = "HIGH" <=> this.confidence_score >= 9000
            /\ this.confidence_level = "MEDIUM" <=>
                   (this.confidence_score >= 7000 /\ this.confidence_score < 9000)
            /\ this.confidence_level = "LOW" <=> this.confidence_score < 7000
            /\ this.confidence_level = "LOW" => this.bet_size = 0
            /\ before.confidence_score = this.confidence_score =>
                   /\ before.confidence_level = this.confidence_level
                   /\ before.bet_size = this.bet_size

\* C12 witness: a score of exactly 0.90 classified after a call that had a
\* LOW score, and a MEDIUM score classified twice from different factors
C12_Witness ==
    /\ sg.op = "_calculate_confidence"
    /\ Len(sg.calls) = 2
    /\ \/ /\ ThisCall.confidence_score = 9000
          /\ sg.calls[1].confidence_level = "LOW"
       \/ /\ ThisCall.confidence_level = "MEDIUM"
          /\ sg.calls[1].confidence_score = ThisCall.confidence_score
          /\ sg.calls[1].pattern_strength # ThisCall.pattern_strength

Clamp(x, lo, hi) == Max(lo, Min(hi, x))

\* C13: the confidence score is 0.4*clamp(4*(maxProb - 0.5), 0, 1)
\* + 0.2*patternStrength + 0.2*min(1, historyLength/100) + 0.2*modelAgreement;
\* the edge term is within [0, 1] and so is the score.
C13_ConfidenceScore ==
    sg.op = "_calculate_confidence" =>
        LET this == ThisCall
            edge == Clamp(4 * (this.max_prob - 500), 0, PScale)
        IN  /\ this.confidence_score
                   = 4 * edge + 2 * this.pattern_strength
                     + 2 * Min(PScale, (this.history_length * PScale) \div 100)
                     + 2 * model_agreement
            /\ this.statistical_edge >= 0 /\ this.statistical_edge <= PScale
            /\ this.confidence_score >= 0 /\ this.confidence_score <= ScoreScale

\* C14: the fused distribution computed by _combine_predictions has its three
\* components >= 0 and summing to 1, and the recommended outcome is one of
\* its largest components.
C14_FusedDistribution ==
    sg.op = "_combine_predictions" =>
        /\ \A o \in Outcomes : sg.final_probs[o][1] >= 0 /\ sg.final_probs[o][2] > 0
        /\ \A o \in Outcomes : sg.final_probs[o][2] = sg.final_probs.B[2]
        /\ sg.final_probs.B[1] + sg.final_probs.P[1] + sg.final_probs.T[1]
               = sg.final_probs.B[2]
        /\ \A o \in Outcomes : ~FracGT(sg.final_probs[o], sg.final_probs[sg.recommended_bet])

\* C14 witness: a fusion whose neural input is the ensemble output (it sums
\* to 0.6, not 1) and whose largest component is the tie
C14_Witness ==
    /\ sg.op = "_combine_predictions"
    /\ sg.neural_pred.probabilities.B + sg.neural_pred.probabilities.P
           + sg.neural_pred.probabilities.T < PriorScale
    /\ sg.recommended_bet = "T"

StreakEvidence ==
    /\ sg.op \in {"update_probabilities", "_apply_bayesian_update"}
    /\ sg.evidence.streak_length > 3
    /\ sg.op = "update_probabilities" => "current_streak_type" \in DOMAIN sg.evidence

\* the outcome the streak is on: given in the evidence, or detected in the
\* history
StreakOutcome ==
    IF sg.op = "update_probabilities" THEN sg.evidence.current_streak_type
    ELSE sg.pattern_analysis.streaks.streak_type

Opposite(o) == IF o = "B" THEN "P" ELSE "B"

\* C15: with a streak longer than 3 on outcome X, the likelihood of X is
\* multiplied by 0.9 and that of the opposite side by 1.1, and the posterior
\* of X is below its prior; for every X, and for the evidence built by
\* _apply_bayesian_update from the detected streak.
C15_StreakAdjustment ==
    StreakEvidence =>
        LET X == StreakOutcome
            unstreaked == calculate_likelihoods([sg.evidence EXCEPT !.streak_length = 0])
        IN  /\ sg.likelihoods[X] * 10 = unstreaked[X] * 9
            /\ X \in {"B", "P"} =>
                   sg.likelihoods[Opposite(X)] * 10 = unstreaked[Opposite(X)] * 11
            /\ FracLess(sg.value[X][1], sg.value[X][2], prior_probabilities[X], PriorScale)

Malformed(evidence) ==
    \/ evidence.streak_length < 0
    \/ evidence.chop_intensity[1] < 0
    \/ evidence.chop_intensity[1] > evidence.chop_intensity[2]
    \/ evidence.monte_carlo_adjustment.B + evidence.monte_carlo_adjustment.P
           + evidence.monte_carlo_adjustment.T # PriorScale

\* C16: malformed evidence (a negative streak length, a chop intensity outside
\* [0, 1], probabilities not summing to 1) is rejected by update_probabilities
\* as a validation failure; no posterior is returned for it.
C16_MalformedEvidenceRejected ==
    (sg.op = "update_probabilities" /\ Malformed(sg.evidence)) => sg.raised # "none"

\* the longest run of equal results at the end of a non-empty list
MaximalTrailingRun(results) ==
    CHOOSE k \in 1..Len(results) :
        /\ \A i \in (Len(results) - k + 1)..Len(results) : results[i] = results[Len(results)]
        /\ k < Len(results) => results[Len(results) - k] # results[Len(results)]

\* C20: for every non-empty list detect_streaks returns the length and the
\* symbol of the maximal trailing run (length 1 for a one-element list) and
\* the break probability min(0.95, 1/length^2 + 0.1).
C20_TrailingRun ==
    (sg.op = "detect_streaks" /\ sg.results # <<>>) =>
        LET n == MaximalTrailingRun(sg.results)
            raw == <<10 + n * n, 10 * n * n>>
        IN  /\ sg.value.current_streak = n
            /\ sg.value.streak_type = sg.results[Len(sg.results)]
            /\ "streak_break_probability" \in DOMAIN sg.value
            /\ ~RatioGT(sg.value.streak_break_probability, raw)
            /\ ~RatioGT(sg.value.streak_break_probability, <<95, 100>>)
            /\ \/ ~RatioGT(raw, sg.value.streak_break_probability)
               \/ ~RatioGT(<<95, 100>>, sg.value.streak_break_probability)

-----------------------------------------------------------------------------
(* Claims about the Monte Carlo engine *)

\* C17: a hand on a shoe of fewer than six cards returns the default outcome
\* without drawing, no hand draws from an empty shoe, and a batch that has
\* returned holds batch_size simulated shoes of exactly num_hands hands each.
C17_DegenerateShoesAbsorbed ==
    mc.op = "_run_batch_simulations" =>
        /\ mc.raised = "none"
        /\ (mc.in_shoe /\ mc.hands # <<>> /\ Len(mc.before) < 6) =>
               /\ mc.shoe = mc.before
               /\ mc.hands[Len(mc.hands)] = "B"
        /\ \A i \in 1..Len(mc.batch_results) :
               Len(mc.batch_results[i].hands) = mc.num_hands
        /\ mc.returned => Len(mc.batch_results) = mc.batch_size

\* C17 witness: a returned batch of two shoes of two hands each on twelve
\* remaining cards, where the second hand of a shoe starts on the six cards
\* the first one left
C17_Witness ==
    /\ mc.op = "_run_batch_simulations"
    /\ mc.returned
    /\ mc.batch_size = 2 /\ mc.num_hands = 2
    /\ ShoeSize(mc.remaining_cards) = 12

\* the standard third-card table: the player's third cards on which a banker
\* total draws
BankerDrawsOn ==
    [t \in 0..7 |-> IF t <= 2 THEN 0..9
                    ELSE IF t = 3 THEN (0..9) \ {8}
                    ELSE IF t = 4 THEN 2..7
                    ELSE IF t = 5 THEN 4..7
                    ELSE IF t = 6 THEN 6..7
                    ELSE {}]

\* the standard rule on the six cards <<banker, banker, player, player, fifth,
\* sixth>>
StandardHand(top) ==
    LET banker_two == <<top[1], top[2]>>
        player_two == <<top[3], top[4]>>
        banker_total == (top[1] + top[2]) % 10
        player_total == (top[3] + top[4]) % 10
        natural == banker_total \in {8, 9} \/ player_total \in {8, 9}
        player_cards == IF ~natural /\ player_total <= 5
                        THEN Append(player_two, top[5]) ELSE player_two
        banker_cards ==
            IF natural THEN banker_two
            ELSE IF player_total <= 5
                 THEN IF top[5] \in BankerDrawsOn[banker_total]
                      THEN Append(banker_two, top[6]) ELSE banker_two
                 ELSE IF banker_total <= 5 THEN Append(banker_two, top[5]) ELSE banker_two
        banker_final == SumSeq(banker_cards) % 10
        player_final == SumSeq(player_cards) % 10
    IN  [banker_cards |-> banker_cards, player_cards |-> player_cards,
         banker_score |-> banker_final, player_score |-> player_final,
         winner |-> IF banker_final > player_final THEN "B"
                    ELSE IF player_final > banker_final THEN "P" ELSE "T"]

\* C18: for every six cards at the top of the shoe, the cards drawn by
\* _simulate_single_hand, the final totals and the winner are those of the
\* standard baccarat rule table.
C18_ThirdCardRule ==
    mc.op = "_simulate_single_hand" =>
        LET standard == StandardHand(mc.shoe)
        IN  /\ mc.hand.raised = "none"
            /\ mc.hand.banker_cards = standard.banker_cards
            /\ mc.hand.player_cards = standard.player_cards
            /\ mc.hand.banker_score = standard.banker_score
            /\ mc.hand.player_score = standard.player_score
            /\ mc.hand.winner = standard.winner

\* C19: the number of simulated shoes merged by _run_simulations equals
\* num_simulations for every simulation count and worker count, and the merged
\* tallies are those of the batches taken in the order the workers finished.
C19_BatchesPartition ==
    (mc.op = "_run_simulations" /\ mc.merged) =>
        /\ Len(mc.all_results) = mc.num_simulations
        /\ SumTallies(mc.all_results) = SumTallies(Extend(mc.batches, mc.finished))

-----------------------------------------------------------------------------
(* Claims about the PredictionEngine *)

\* C21: for every history shorter than the engine's minimum of 60 outcomes,
\* and whenever no model is loaded, analyze returns signal 'NONE' with
\* confidence 0.0 and does not raise.
C21_InsufficientDataIsAResult ==
    (pe.op = "analyze" /\ (Len(pe.history) < minimum_history \/ pe.model = None)) =>
        /\ pe.raised = "none"
        /\ pe.signal = "NONE"
        /\ pe.confidence = 0
        /\ ~pe.is_nan

\* C21 witness: a trained engine asked about 59 outcomes answers 'NONE'.
C21_Witness ==
    /\ pe.op = "analyze"
    /\ pe.model = "RandomForestClassifier"
    /\ pe.scaler_fitted
    /\ Len(pe.history) = minimum_history - 1
    /\ pe.signal = "NONE"

-----------------------------------------------------------------------------
(* Claims about the outcome history and the signal history *)

\* C22: after any number of add_game_data calls the history is no longer than
\* max_history_size and holds exactly the most recent min(n, max_history_size)
\* of the n events, in the order they arrived.
C22_BoundedFifo ==
    LET kept == Min(events, max_history_size)
    IN  /\ Len(history) <= max_history_size
        /\ history = [i \in 1..kept |-> events - kept + i]

\* C22 witness: five events past the cap, the five oldest evicted.
C22_Witness ==
    /\ events = max_history_size + 5
    /\ Len(history) = max_history_size
    /\ history[1] = 6
    /\ history[max_history_size] = events

\* C23: the signal history of the SignalManager never holds more entries than
\* a fixed bound (the cap of the outcome history, the only cap the module
\* configures), however many signals were processed.
C23_SignalHistoryBounded == Len(signal_history) <= max_history_size

-----------------------------------------------------------------------------
(* Further claims about the RiskManager *)

\* C25: in an active session that is not stopped, every bet returned by
\* calculate_bet_size is at least 0 and at most 5% of the current bankroll.
C25_BetWithinFivePercent ==
    (/\ ret.op = "calculate_bet_size"
     /\ ret.raised = "none"
     /\ session_active
     /\ ~emergency_stop)
    => (/\ ret.value >= 0
        /\ ret.value * 100 <= 5 * current_bankroll)

\* the balance after the first k recorded results, the highest balance up to
\* then, and the drawdown from that peak as <<numerator, denominator>>
BalanceAfter(k) == initial_bankroll + SumSeq(SubSeq(results_history, 1, k))
PeakAfter(k) ==
    CHOOSE b \in {BalanceAfter(j) : j \in 0..k} : \A j \in 0..k : BalanceAfter(j) <= b
DrawdownAfter(k) == <<PeakAfter(k) - BalanceAfter(k), PeakAfter(k)>>
LargestDrawdown(n) ==
    CHOOSE d \in {DrawdownAfter(k) : k \in 0..n} : \A k \in 0..n : ~RatioGT(DrawdownAfter(k), d)
RatioEq(r, s) == r[1] * s[2] = s[1] * r[2]

\* what holds of the bookkeeping after a record_bet_result
AfterRecord ==
    ret.op = "record_bet_result" =>
        LET n == Len(results_history)
        IN  /\ bankroll_state.peak_balance >= current_bankroll
            /\ bankroll_state.peak_balance = PeakAfter(n)
            /\ RatioEq(bankroll_state.max_drawdown, LargestDrawdown(n))
            /\ (bankroll_state.winning_streak = 0 \/ bankroll_state.losing_streak = 0)

\* C28: after every record_bet_result the peak balance is at least the current
\* bankroll and is the highest balance reached so far (the initial one
\* included), max_drawdown equals the largest drawdown from the peak seen after
\* any recorded result, and at most one of the two streak counters is non-zero;
\* no operation ever lowers max_drawdown.
C28_PeakAndDrawdown ==
    [][/\ ~RatioGT(bankroll_state.max_drawdown, bankroll_state'.max_drawdown)
       /\ AfterRecord']_vars

\* C28 witness: a loss recorded below a peak that is above the initial
\* bankroll, after an earlier and larger drawdown.
C28_Witness ==
    /\ ret.op = "record_bet_result"
    /\ bankroll_state.peak_balance > initial_bankroll
    /\ current_bankroll < bankroll_state.peak_balance
    /\ RatioGT(bankroll_state.max_drawdown,
               <<bankroll_state.peak_balance - current_bankroll, bankroll_state.peak_balance>>)
    /\ bankroll_state.losing_streak = 1

-----------------------------------------------------------------------------
(* Claims about the tasks of AdvancedBaccaratBot *)

\* the positions of the processing task between the load and the store of
\* `self.current_bankroll += result` in record_bet_result
MidRecord == {"pending_mid", "result_mid"}

\* C24: while one record_bet_result is between its read and its write of the
\* bankroll, the next step is that call's own store: the monitoring task does
\* not read the bankroll and no other record_bet_result begins.
C24_SingleWriter ==
    [][bot.pc \in MidRecord =>
          /\ bot'.last = "processing"
          /\ bot'.pc \notin MidRecord
          /\ Len(session_results') = Len(session_results) + 1]_vars

\* C24 witness: the monitoring task has read the bankroll while the processing
\* task slept in _confirm_bet, and the processing task is now inside
\* record_bet_result.
C24_Witness ==
    /\ bot.pc = "pending_mid"
    /\ bot.last = "processing"
    /\ ret.op = "get_risk_assessment"
    /\ Len(bot.data_buffer) > 0

\* C26: every game datum of the DataAggregator is passed to
\* process_new_game_data at most once: no datum is twice in the outcome history
\* and the number of processed events is at most the number of data collected.
C26_EachDatumProcessedOnce ==
    /\ \A i, j \in 1..Len(history) : history[i] = history[j] => i = j
    /\ events <= Len(bot.data_buffer)

\* the bets of the list that came from the signal with this timestamp
BetsOf(timestamp) == {i \in 1..Len(bot.bets) : bot.bets[i].signal = timestamp}

-----------------------------------------------------------------------------
(* Claims about the DecisionEngine *)

\* 100 * bits
Times100(bits) == AddBits(Zeros(6) \o bits, AddBits(Zeros(5) \o bits, Zeros(2) \o bits))

\* the distance between a double and an amount in cents, in units of 2^-56 cents
RoundingError(x, cents) ==
    LET a == Times100(x.mag)
        b == Trim(Zeros(FractionBits) \o NatBits(IF cents < 0 THEN -cents ELSE cents))
    IN  IF x.neg # (cents < 0) THEN AddBits(a, b)
        ELSE IF LessBits(a, b) THEN SubBits(b, a)
        ELSE SubBits(a, b)

\* the rounding error of a double is below 2^-26 cents
WithinRounding(x, cents) == Len(RoundingError(x, cents)) <= 30

stop_reached ==
    \/ de.stats.profit <= -de.settings.stop_loss
    \/ de.stats.profit >= de.settings.stop_win

\* C30: once the profit is at or below -stop_loss or at or above stop_win, no
\* step changes the profit or the bankroll, the stop stays reached, and every
\* make_decision answered from then on returns should_bet = False.
C30_StopsAreAbsorbing ==
    [][stop_reached =>
          /\ stop_reached'
          /\ de'.stats.profit = de.stats.profit
          /\ de'.current_bankroll = de.current_bankroll
          /\ de'.binary64_bankroll = de.binary64_bankroll
          /\ de'.op = "make_decision" => ~de'.decision.should_bet]_vars

\* after the stop-win was reached, a confident signal on an open table with
\* enough history and enough bankroll was refused
C30_Witness ==
    /\ de.stats.profit >= de.settings.stop_win
    /\ de.op = "make_decision"
    /\ de.asked = confident_question
    /\ de.current_bankroll >= de.settings.base_bet
    /\ ~de.decision.should_bet

=============================================================================
